---- MODULE Spec2Model ----
(***************************************************************************)
(* Verification model of the storefront onboarding core:                   *)
(*   - ShopifyClient.graphql / graphqlWithRetry        (src/lib/shopify.ts) *)
(*   - findOrCreateCollection and the collections step (step3-collections)  *)
(*   - the product import stream                        (step2-products)    *)
(*   - the orchestrator handleStart / handleRetry       (onboarding/page)   *)
(* Each component has its own specification over the shared variables; the  *)
(* variables of the other components keep their initial values.             *)
(***************************************************************************)
EXTENDS Integers, Sequences, FiniteSets, TLC

VARIABLES
    \* ---- ShopifyClient.graphqlWithRetry (one call) ----
    maxRetries,     \* the maxRetries argument of the call
    attempt,        \* the loop variable `attempt`
    requests,       \* the responses of the requests issued so far, in order
    delays,         \* the waits performed so far: [after |-> attempt, ms |-> backoffMs]
    gqlState,       \* "running" | "returned" | "threw"
    gqlError,       \* the error the call threw, NoError otherwise
    \* ---- OnboardingPage (orchestrator) ----
    csvFile,        \* the chosen CSV file, NoFile when none
    running,        \* React state `running`
    currentStep,    \* React state `currentStep`
    completedSteps, \* React state `completedSteps`
    stepErrors,     \* React state `stepErrors`: step id -> message
    done,           \* React state `done`
    pipe,           \* pipeRef.current (PipelineData)
    handler,        \* the handler whose loop is suspended: "none" | "start" | "retry"
    loopIdx,        \* index into STEPS of the step the suspended loop runs next
    lastHandler,    \* history: the handler activated last
    invoked,        \* history: step ids passed to runStep by the last activation
    outcomes,       \* history: for each entry of invoked, "ok" or "failed"
    lastFailed,     \* history: id of the step that failed last, 0 if none
    resumeK,        \* history: lastFailed when the last handleRetry began
    resumePipe,     \* history: pipe when the last handleRetry began
    activations,    \* number of handler activations so far
    \* ---- product import endpoint (step2-products POST) ----
    entries,        \* the catalog grouped by handle: [handle, rows]
    impPc,          \* "idle" | "loop" | "closing" | "closed" | "json"
    impIdx,         \* index into entries of the item the loop processes next
    productIds,     \* the array productIds
    errors,         \* the array errors
    processed,      \* the counter processed
    stream,         \* the records written to the response body, in order
    impStatus,      \* HTTP status of the response, 0 before the response
    remoteProducts, \* the products of the remote store: [id, handle]
    callLog,        \* history: the client calls this execution issued: [op, handle, outcome]
    impRuns,        \* number of executions of the POST so far
    \* ---- collections endpoint (step3-collections POST) ----
    colRequest,     \* the request body: [collections, productCount]
    colPc,          \* "idle" | "loop" | "bestSellers" | "done"
    colIdx,         \* index into collectionNames of the name the loop takes next
    publicationId,  \* the Online Store publication id, "" when not found
    createdCollections, \* the array createdCollections
    colErrors,      \* the array errors of the step
    colResponse,    \* the JSON response of the step, NoResponse before it
    remoteCollections,  \* the collections of the remote store: [id, handle, title]
    published,      \* ids of the collections published to the Online Store
    lastFoc,        \* history: the last findOrCreateCollection call
    returnedIds,    \* history: handle -> the id first returned for it
    colRuns,        \* number of POSTs handled so far
    \* ---- runStreamingStep (client side of the import stream) ----
    rsPc,           \* "idle" | "reading" | "returned" | "threw" | "recorded"
    rsMode,         \* history: "none", or how the body is read: "json" | "stream"
    rsWire,         \* the text of the body not yet delivered by reader.read()
    rsEnding,       \* how reader.read() answers after the text: "done" | "reject"
    rsReceived,     \* history: the text delivered so far
    buffer,         \* the variable buffer
    finalData,      \* the variable finalData, Null before a complete record
    stepProgress,   \* React state `stepProgress`
    rsResult,       \* the value runStreamingStep returned, Null before
    \* ---- theme upload (step4-theme POST) and image upload functions ----
    upKind,         \* the operation: "theme" | "themeStaged" | "image" | "staged"
    upPc,           \* "idle" | "polling" | "done"
    pollI,          \* the loop variable i of the polling loop
    pollQueries,    \* history: number of status queries issued
    pollThrew,      \* history: some status query threw
    upEnd,          \* history: the exit path taken, "none" before the exit
    upResult,       \* the response or return value, Null before the exit
    blobUrl,        \* the variable blobUrl, NoBlob for null
    blobs,          \* the blobs that exist in blob storage
    upCalls,        \* history: the requests issued: [op, status]
    remoteThemes,   \* number of themes of the shop that carry the step's theme name
    themeRuns,      \* number of executions of the theme step so far
    themeProcessing,\* the field processing of each of these themes, in list order
    themeIdx,       \* position in that list of the theme the execution holds the id of, 0 for none
    \* ---- upsertFileWithRetry (step7-configure) ----
    usMax,          \* the parameter maxAttempts
    usAttempt,      \* the loop variable attempt
    usPc,           \* "loop" | "done"
    usLog,          \* history: the answer of each graphqlWithRetry call: [kind, msg]
    usWaits,        \* history: the waits between attempts, in milliseconds
    usResult,       \* the value returned, Null before the return
    \* ---- the await points of the step loop and of the import loop ----
    awHandler,      \* the handler whose loop runs: "none" | "start" | "retry"
    awIdx,          \* index into STEPS of the step the loop is at
    awPc,           \* "loop" (before runStep) | "fetch" (awaiting the step's fetch)
    awRunning,      \* React state `running`
    awFailed,       \* index of the step stepErrors names, 0 when it is empty
    awActivations,  \* number of handler activations so far
    stepsInFlight,  \* the step requests issued and not yet settled
    srvPc,          \* import POST: "idle" | "locations" | "loop" | "create" | "variants"
    srvIdx,         \* index of the entry the import loop is at
    srvTotal,       \* the number of entries of the catalog
    callsInFlight,  \* the client calls the import issued that have not returned
    \* ---- menus and policies endpoint (step8-menus POST) ----
    footerMenu,     \* the items of the shop's footer menu, NoMenu when it has none
    footerInit,     \* history: footerMenu before the first execution
    mnRuns,         \* number of executions of the POST so far
    mnApplied,      \* history: number of menuUpdate calls the shop applied
    mnResponse,     \* the response of the last execution, Null before
    \* ---- the form of the onboarding page ----
    form            \* [names, images]: the collection names typed, the image inputs filled

retryVars == <<maxRetries, attempt, requests, delays, gqlState, gqlError>>

pipeVars ==
    <<csvFile, running, currentStep, completedSteps, stepErrors, done, pipe,
      handler, loopIdx, lastHandler, invoked, outcomes, lastFailed, resumeK,
      resumePipe, activations>>

impVars ==
    <<entries, impPc, impIdx, productIds, errors, processed, stream, impStatus,
      remoteProducts, callLog, impRuns>>

colVars ==
    <<colRequest, colPc, colIdx, publicationId, createdCollections, colErrors,
      colResponse, remoteCollections, published, lastFoc, returnedIds, colRuns>>

streamVars ==
    <<rsPc, rsMode, rsWire, rsEnding, rsReceived, buffer, finalData, stepProgress,
      rsResult>>

\* the variables of the components specified after the first four
uploadVars ==
    <<upKind, upPc, pollI, pollQueries, pollThrew, upEnd, upResult, blobUrl,
      blobs, upCalls, remoteThemes, themeRuns, themeProcessing, themeIdx>>

upsertVars == <<usMax, usAttempt, usPc, usLog, usWaits, usResult>>

awaitVars ==
    <<awHandler, awIdx, awPc, awRunning, awFailed, awActivations, stepsInFlight,
      srvPc, srvIdx, srvTotal, callsInFlight>>

menuVars == <<footerMenu, footerInit, mnRuns, mnApplied, mnResponse>>

lastVars == <<menuVars, form>>

moreVars == <<upsertVars, awaitVars, lastVars>>

extVars == <<streamVars, uploadVars, moreVars>>

notUploadVars == <<retryVars, pipeVars, impVars, colVars, streamVars, moreVars>>

notRetryVars == <<pipeVars, impVars, colVars, extVars>>
notPipeVars == <<retryVars, impVars, colVars, extVars>>
notImpVars == <<retryVars, pipeVars, colVars, extVars>>
notColVars == <<retryVars, pipeVars, impVars, extVars>>

vars == <<retryVars, pipeVars, impVars, colVars, extVars>>

\* ------------------------------------------------------------------------
\* Bounds of the model
\* ------------------------------------------------------------------------
MaxRetriesBound == 4
\* handleStart / handleRetry activations explored
MaxActivations == 2
\* products in the catalog
MaxProducts == 2
\* executions of the product import against the same store
MaxImpRuns == 2
\* re-executions of the theme step for the same shop
MaxThemeRuns == 2
\* the largest maxAttempts upsertFileWithRetry is called with
MaxAttemptsBound == 3
\* executions of the menus and policies step for the same shop
MaxMenuRuns == 2
\* names in the collections list of one request
MaxCollections == 1
\* executions of the collections step against the same store
MaxColRuns == 2

\* ------------------------------------------------------------------------
\* Generic helpers
\* ------------------------------------------------------------------------
RECURSIVE Pow2(_)
Pow2(n) == IF n = 0 THEN 1 ELSE 2 * Pow2(n - 1)

\* String.prototype.includes on character sequences
Includes(s, t) ==
    \E i \in 1..(Len(s) - Len(t) + 1) : SubSeq(s, i, i + Len(t) - 1) = t

Undefined == "undefined"
NoError == [type |-> "none"]

\* ------------------------------------------------------------------------
\* Remote responses to one POST of ShopifyClient.graphql
\* ------------------------------------------------------------------------
THROTTLED == <<"T", "H", "R", "O", "T", "T", "L", "E", "D">>

MsgThrottledUpper == <<"i", "s", " ">> \o THROTTLED
MsgThrottledLower == <<"t", "h", "r", "o", "t", "t", "l", "e", "d">>
MsgInvalid == <<"b", "a", "d">>

\* entries of the `errors` list of a response body
ErrThrottledCode == [message |-> MsgThrottledLower, code |-> "THROTTLED"]
ErrThrottledMsg == [message |-> MsgThrottledUpper, code |-> Undefined]
ErrBusiness == [message |-> MsgInvalid, code |-> Undefined]
ErrBusinessCode == [message |-> MsgThrottledLower, code |-> "ACCESS_DENIED"]

ErrorLists ==
    { <<>>, <<ErrThrottledCode>>, <<ErrThrottledMsg>>, <<ErrBusiness>>,
      <<ErrBusinessCode>>, <<ErrBusiness, ErrThrottledCode>> }

HttpStatuses == {200, 429, 500}

\* a response: its HTTP status, whether the parsed body has a truthy `errors`
\* member (an empty array is truthy), and that member
Responses ==
    [status : HttpStatuses, hasErrors : {FALSE}, errors : {<<>>}] \cup
    [status : {200}, hasErrors : {TRUE}, errors : ErrorLists]

\* fetch's Response.ok
ResOk(resp) == resp.status \in 200..299

\* faulty variant of isThrottled: every entry has to be a throttling entry
isThrottled_Every(errs) ==
    /\ errs # <<>>
    /\ \A i \in 1..Len(errs) :
         errs[i].code = "THROTTLED" \/ Includes(errs[i].message, THROTTLED)

\* ShopifyGraphQLError.isThrottled
isThrottled(errs) ==
    \E i \in 1..Len(errs) :
        errs[i].code = "THROTTLED" \/ Includes(errs[i].message, THROTTLED)

\* ShopifyClient.graphql: the outcome of one request whose response is resp,
\* issued as request number n (0-based) of the enclosing call
graphql(resp, n) ==
    IF ~ResOk(resp)
    THEN [ok |-> FALSE,
          err |-> [type |-> "Error", status |-> resp.status, attempt |-> n]]
    ELSE IF resp.hasErrors
    THEN [ok |-> FALSE,
          err |-> [type |-> "ShopifyGraphQLError", errors |-> resp.errors,
                   attempt |-> n]]
    ELSE [ok |-> TRUE, err |-> NoError]

\* faulty variants of hasRetriesLeft: gives up one attempt early / never gives up
hasRetriesLeft_Early(a, max) == a < max - 2
hasRetriesLeft_Always(a, max) == a < max

hasRetriesLeft(a, max) == a < max - 1

\* faulty variant of backoffMs: linear instead of exponential
backoffMs_Linear(a) == (a + 1) * 1000

backoffMs(a) == Pow2(a) * 1000

LoopCondition(a, max) == a < max

\* faulty variants of CatchDecision: retries every GraphQL error / every transport error
CatchDecision_AnyGraphQLError(err, a, max) ==
    IF err.type = "ShopifyGraphQLError" /\ hasRetriesLeft(a, max)
    THEN "continue"
    ELSE "throw"

CatchDecision_Transport(err, a, max) ==
    IF /\ \/ err.type = "Error"
          \/ (err.type = "ShopifyGraphQLError" /\ isThrottled(err.errors))
       /\ hasRetriesLeft(a, max)
    THEN "continue"
    ELSE "throw"

\* the catch block of graphqlWithRetry: what the loop does with a caught error
CatchDecision(err, a, max) ==
    IF err.type = "ShopifyGraphQLError" /\ isThrottled(err.errors)
       /\ hasRetriesLeft(a, max)
    THEN "continue"
    ELSE "throw"

MaxRetriesExhausted == [type |-> "MaxRetriesExhausted"]

\* ------------------------------------------------------------------------
\* Specification of one graphqlWithRetry call
\* ------------------------------------------------------------------------
\* ------------------------------------------------------------------------
\* OnboardingPage: STEPS, PipelineData, applyPipelineData, runStep
\* ------------------------------------------------------------------------
STEPS ==
    << [id |-> 1, endpoint |-> "step1-csv", streaming |-> FALSE],
       [id |-> 2, endpoint |-> "step2-products", streaming |-> TRUE],
       [id |-> 3, endpoint |-> "step3-collections", streaming |-> FALSE],
       [id |-> 4, endpoint |-> "step4-theme", streaming |-> FALSE],
       [id |-> 5, endpoint |-> "step5-images", streaming |-> FALSE],
       [id |-> 6, endpoint |-> "step7-configure", streaming |-> FALSE],
       [id |-> 7, endpoint |-> "step6-publish", streaming |-> FALSE],
       [id |-> 8, endpoint |-> "step8-menus", streaming |-> FALSE] >>

NoFile == "none"
CsvFiles == {"csvA", "csvB"}

\* the initial value of pipeRef
EmptyPipe ==
    [csvText |-> "", totalProducts |-> 0, productIds |-> <<>>,
     collections |-> <<>>, bestSellersId |-> "", themeId |-> "",
     logoUrl |-> "", faviconUrl |-> "", bannerDesktopUrl |-> "",
     bannerMobileUrl |-> "", collectionImages |-> <<>>]

Has(data, f) == f \in DOMAIN data

\* JavaScript `data.f || dflt` for a number, a string and an array member
OrNum(data, f, dflt) == IF Has(data, f) /\ data[f] # 0 THEN data[f] ELSE dflt
OrStr(data, f, dflt) == IF Has(data, f) /\ data[f] # "" THEN data[f] ELSE dflt
OrArr(data, f, dflt) == IF Has(data, f) THEN data[f] ELSE dflt

\* the JSON bodies a step endpoint may answer with (a member may be missing)
StepResponses(id) ==
    CASE id = 1 ->
           { [success |-> TRUE, totalProducts |-> 2],
             [success |-> TRUE, totalProducts |-> 0, message |-> "msg"],
             [success |-> FALSE, message |-> "msg"],
             [error |-> "401"] }
      [] id = 2 ->
           { [success |-> TRUE, productIds |-> <<"p1">>, message |-> "msg"],
             [success |-> TRUE, productIds |-> <<"p2", "p3">>],
             [success |-> FALSE, productIds |-> <<>>, message |-> "msg"],
             [success |-> FALSE] }
      [] id = 3 ->
           { [success |-> TRUE, collections |-> <<"c1">>, bestSellersId |-> "bs",
              message |-> "msg"],
             [success |-> TRUE, collections |-> <<>>, bestSellersId |-> "bs"],
             [success |-> FALSE, collections |-> <<>>, bestSellersId |-> ""],
             [success |-> FALSE, message |-> "msg"] }
      [] id = 4 ->
           { [success |-> TRUE, themeId |-> "t1"],
             [success |-> TRUE, themeId |-> "t2", message |-> "msg"],
             [success |-> FALSE, message |-> "msg"],
             [success |-> FALSE, themeId |-> "t2"] }
      [] id = 5 ->
           { [success |-> TRUE, logoUrl |-> "logo", faviconUrl |-> "fav",
              bannerDesktopUrl |-> "bd", bannerMobileUrl |-> "bm",
              collectionImages |-> <<"img">>],
             [success |-> TRUE, logoUrl |-> "logo"],
             [success |-> FALSE, message |-> "msg"] }
      [] OTHER ->
           { [success |-> TRUE, message |-> "msg"],
             [success |-> FALSE, message |-> "msg"],
             [success |-> FALSE] }

\* faulty variant of applyPipelineData: a merge that rebuilds the record from the
\* response, dropping what the response does not carry
applyPipelineData_Rebuild(p, stepId, data) ==
    [f \in DOMAIN p |->
        IF f = "csvText" THEN p[f]
        ELSE IF Has(data, f) THEN data[f] ELSE EmptyPipe[f]]

applyPipelineData(p, stepId, data) ==
    CASE stepId = 1 ->
           [p EXCEPT !.totalProducts = OrNum(data, "totalProducts", 0)]
      [] stepId = 2 ->
           [p EXCEPT !.productIds = OrArr(data, "productIds", <<>>)]
      [] stepId = 3 ->
           [p EXCEPT !.collections = OrArr(data, "collections", <<>>),
                     !.bestSellersId = OrStr(data, "bestSellersId", "")]
      [] stepId = 4 ->
           [p EXCEPT !.themeId = OrStr(data, "themeId", "")]
      [] stepId = 5 ->
           [p EXCEPT !.logoUrl = OrStr(data, "logoUrl", ""),
                     !.faviconUrl = OrStr(data, "faviconUrl", ""),
                     !.bannerDesktopUrl = OrStr(data, "bannerDesktopUrl", ""),
                     !.bannerMobileUrl = OrStr(data, "bannerMobileUrl", ""),
                     !.collectionImages = OrArr(data, "collectionImages", <<>>)]
      [] OTHER -> p

\* extractSummary(stepId, data).message
SummaryMessage(stepId, data) ==
    IF Has(data, "message") /\ data.message # "" THEN data.message
    ELSE IF stepId = 1 THEN "produtos no CSV"
    ELSE "Concluido"

\* the outcomes of runStep(stepDef): the fetch or res.json() rejects, or the
\* body is merged into pipe and the step succeeds or throws on !data.success
RunStepOutcomes(stepId, p) ==
    { [threw |-> TRUE, pipe |-> p, message |-> "Failed to fetch"] } \cup
    { [threw |-> ~(Has(data, "success") /\ data.success),
       pipe |-> applyPipelineData(p, stepId, data),
       message |-> SummaryMessage(stepId, data)] : data \in StepResponses(stepId) }

DeleteKey(f, k) == [x \in DOMAIN f \ {k} |-> f[x]]
PutKey(f, k, v) == [x \in DOMAIN f \cup {k} |-> IF x = k THEN v ELSE f[x]]
EmptyMap == [x \in {} |-> ""]

SeqIncludes(q, x) == \E i \in 1..Len(q) : q[i] = x

\* STEPS.find((s) => stepErrors[s.id]): index of the first step with an error
FindFailedIdx(errs) ==
    IF \E i \in 1..Len(STEPS) : STEPS[i].id \in DOMAIN errs
    THEN CHOOSE i \in 1..Len(STEPS) :
            /\ STEPS[i].id \in DOMAIN errs
            /\ \A j \in 1..(i - 1) : STEPS[j].id \notin DOMAIN errs
    ELSE 0

\* faulty variant of RetryStartIdx: the resume restarts the whole pipeline
RetryStartIdx_FromFirst(failedIdx) == 1

\* const startIdx = STEPS.indexOf(failedStep), as an index from 1
RetryStartIdx(failedIdx) == failedIdx

\* faulty variant of CatchReturn: the catch block lacks its return, the loop goes on
CatchReturn_FallThrough(h, idx) ==
    IF idx = Len(STEPS)
    THEN [handler |-> "none", loopIdx |-> idx]
    ELSE [handler |-> h, loopIdx |-> idx + 1]

\* the `return` of the catch block in the step loops: the handler ends
CatchReturn(h, idx) == [handler |-> "none", loopIdx |-> idx]

PipeVarsInit ==
    /\ csvFile = NoFile
    /\ running = FALSE
    /\ currentStep = 0
    /\ completedSteps = <<>>
    /\ stepErrors = EmptyMap
    /\ done = FALSE
    /\ pipe = EmptyPipe
    /\ handler = "none"
    /\ loopIdx = 0
    /\ lastHandler = "none"
    /\ invoked = <<>>
    /\ outcomes = <<>>
    /\ lastFailed = 0
    /\ resumeK = 0
    /\ resumePipe = EmptyPipe
    /\ activations = 0

\* ------------------------------------------------------------------------
\* A client call seen from its caller: graphqlWithRetry with the default
\* maxRetries, against a remote that answers the faults of `script` (error
\* responses) to the first requests and then executes the request
\* ------------------------------------------------------------------------
DefaultMaxRetries == 3

Throttled200 == [status |-> 200, hasErrors |-> TRUE, errors |-> <<ErrThrottledCode>>]
Business200 == [status |-> 200, hasErrors |-> TRUE, errors |-> <<ErrBusiness>>]
Http500 == [status |-> 500, hasErrors |-> FALSE, errors |-> <<>>]

FaultScripts ==
    { <<>>, <<Throttled200>>, <<Throttled200, Throttled200, Throttled200>>,
      <<Http500>>, <<Business200>> }

\* TRUE when the call reaches the remote operation and returns its data,
\* FALSE when it throws: the loop of graphqlWithRetry run from attempt a
RECURSIVE CallDelivered(_, _, _)
CallDelivered(script, a, max) ==
    IF ~LoopCondition(a, max) THEN FALSE
    ELSE IF a + 1 > Len(script) THEN TRUE
    ELSE LET out == graphql(script[a + 1], a) IN
         IF out.ok THEN TRUE
         ELSE IF CatchDecision(out.err, a, max) = "continue"
         THEN CallDelivered(script, a + 1, max)
         ELSE FALSE

Delivered(script) == CallDelivered(script, 0, DefaultMaxRetries)

\* ------------------------------------------------------------------------
\* step2-products: catalog, buildVariants, the import loop
\* ------------------------------------------------------------------------
Handles == <<"h1", "h2", "h3", "h4">>

\* the "Variant Price" cells of the rows of one product
RowChoices == { <<"10">>, <<"", " ">>, <<" ", "10", "12">> }

Catalogs ==
    UNION { { [i \in 1..n |-> [handle |-> Handles[i], rows |-> rs[i]]] :
                rs \in [1..n -> RowChoices] } : n \in 0..MaxProducts }

\* String.prototype.trim on a price cell
Trim(cell) == IF cell = " " THEN "" ELSE cell

buildVariants(rows) ==
    LET HasPrice(cell) == Trim(cell) # ""
        rowsWithPrice == SelectSeq(rows, HasPrice)
    IN  IF Len(rowsWithPrice) = 0
        THEN << [price |-> IF Trim(rows[1]) # "" THEN Trim(rows[1]) ELSE "0.00"] >>
        ELSE [i \in 1..Len(rowsWithPrice) |-> [price |-> rowsWithPrice[i]]]

ProgressRecord(p, total) == [type |-> "progress", processed |-> p, total |-> total]

CompleteRecord(success, ids, errs, failed, total) ==
    [type |-> "complete", success |-> success, imported |-> Len(ids),
     failed |-> failed, total |-> total, productIds |-> ids, errors |-> errs]

\* faulty variant of LocationFailure: the products are not counted as failed
LocationFailure_NoneFailed(total) ==
    CompleteRecord(FALSE, <<>>,
                   << [handle |-> "_global", reason |-> "location"] >>, 0, total)

\* the JSON answer of the import when fetchLocationId threw
LocationFailure(total) ==
    CompleteRecord(FALSE, <<>>,
                   << [handle |-> "_global", reason |-> "location"] >>,
                   total, total)

\* what the remote store may answer to a delivered productCreate
CreateAnswers == {"product", "userErrors", "nullProduct"}
\* what the remote store may answer to a delivered productVariantsBulkCreate
VariantAnswers == {"variants", "userErrors"}

NewProductId(store) == Len(store) + 1

ImpVarsIdle ==
    /\ impPc = "idle"
    /\ impIdx = 0
    /\ productIds = <<>>
    /\ errors = <<>>
    /\ processed = 0
    /\ stream = <<>>
    /\ impStatus = 0
    /\ remoteProducts = <<>>
    /\ callLog = <<>>
    /\ impRuns = 0

\* ------------------------------------------------------------------------
\* validators.ts: slugify, chunkArray
\* ------------------------------------------------------------------------
UpperCase == <<"A", "B", "C", "D", "E", "F", "G", "H", "I", "J", "K", "L", "M",
               "N", "O", "P", "Q", "R", "S", "T", "U", "V", "W", "X", "Y", "Z">>
LowerCase == <<"a", "b", "c", "d", "e", "f", "g", "h", "i", "j", "k", "l", "m",
               "n", "o", "p", "q", "r", "s", "t", "u", "v", "w", "x", "y", "z">>
Digits == {"0", "1", "2", "3", "4", "5", "6", "7", "8", "9"}

\* one character of String.prototype.toLowerCase ("E_acute" stands for the
\* accented capital, "e_acute" for the accented small letter)
ToLowerChar(c) ==
    IF \E i \in 1..Len(UpperCase) : UpperCase[i] = c
    THEN LowerCase[CHOOSE i \in 1..Len(UpperCase) : UpperCase[i] = c]
    ELSE IF c = "E_acute" THEN "e_acute"
    ELSE c

ToLowerCase(str) == [i \in 1..Len(str) |-> ToLowerChar(str[i])]

\* normalize("NFD") followed by the removal of the combining marks
StripAccent(c) == IF c = "e_acute" THEN "e" ELSE c

IsSlugChar(c) == (\E i \in 1..Len(LowerCase) : LowerCase[i] = c) \/ c \in Digits

\* replace(/[^a-z0-9]+/g, "-")
RECURSIVE ReplaceRuns(_, _)
ReplaceRuns(str, inRun) ==
    IF str = <<>> THEN <<>>
    ELSE IF IsSlugChar(Head(str))
    THEN <<Head(str)>> \o ReplaceRuns(Tail(str), FALSE)
    ELSE IF inRun THEN ReplaceRuns(Tail(str), TRUE)
    ELSE <<"-">> \o ReplaceRuns(Tail(str), TRUE)

\* replace(/^-+|-+$/g, "")
RECURSIVE StripDashes(_)
StripDashes(str) ==
    IF str = <<>> THEN <<>>
    ELSE IF Head(str) = "-" THEN StripDashes(Tail(str))
    ELSE IF str[Len(str)] = "-" THEN StripDashes(SubSeq(str, 1, Len(str) - 1))
    ELSE str

slugify(text) ==
    LET lowered == ToLowerCase(text)
        plain == [i \in 1..Len(lowered) |-> StripAccent(lowered[i])]
    IN  StripDashes(ReplaceRuns(plain, FALSE))

BatchSize == 250

\* the lengths of the chunks chunkArray(array, size) returns for an array of
\* n elements
RECURSIVE chunkArray(_, _)
chunkArray(n, size) ==
    IF n <= 0 THEN <<>>
    ELSE <<IF n < size THEN n ELSE size>> \o chunkArray(n - size, size)

\* ------------------------------------------------------------------------
\* step3-collections: the remote collection store, findOrCreateCollection
\* ------------------------------------------------------------------------
NameBestSellers == <<"B", "e", "s", "t", " ", "S", "e", "l", "l", "e", "r", "s">>
NameCafe == <<" ", "C", "a", "f", "E_acute", " ", "-", "2", "!">>

CollectionNames == {NameBestSellers, NameCafe}

BestSellersTitle == NameBestSellers
BestSellersHandle ==
    <<"b", "e", "s", "t", "-", "s", "e", "l", "l", "e", "r", "s">>

\* messages of the userErrors of collectionCreate
MsgHandleTaken == <<"H", "a", "n", "d", "l", "e", " ", "T", "a", "k", "e", "n">>
MsgAlreadyExists == <<"A", "L", "R", "E", "A", "D", "Y">>
MsgTitleBlank == <<"b", "l", "a", "n", "k">>

TAKEN == <<"t", "a", "k", "e", "n">>
ALREADY == <<"a", "l", "r", "e", "a", "d", "y">>

NoCol == [id |-> 0]
NoResponse == [status |-> 0]

StoreHas(store, handle) == \E i \in 1..Len(store) : store[i].handle = handle

StoreGet(store, handle) ==
    store[CHOOSE i \in 1..Len(store) : store[i].handle = handle]


\* the remote collectionCreate: [collection, userErrors, store]; for a free
\* handle it answers `answer` ("collection", "userErrors", or "reserved": a
\* rejection with conflictMsg although no collection has the handle), a
\* handle in use it rejects with conflictMsg
RemoteCollectionCreate(store, title, handle, answer, conflictMsg) ==
    IF StoreHas(store, handle)
    THEN [collection |-> NoCol, userErrors |-> << [message |-> conflictMsg] >>,
          store |-> store]
    ELSE IF answer = "userErrors"
    THEN [collection |-> NoCol, userErrors |-> << [message |-> MsgTitleBlank] >>,
          store |-> store]
    ELSE IF answer = "reserved"
    THEN [collection |-> NoCol, userErrors |-> << [message |-> conflictMsg] >>,
          store |-> store]
    ELSE LET c == [id |-> Len(store) + 1, handle |-> handle, title |-> title]
         IN  [collection |-> c, userErrors |-> <<>>, store |-> Append(store, c)]

\* the remote collectionByHandle
RemoteCollectionByHandle(store, handle) ==
    IF StoreHas(store, handle) THEN StoreGet(store, handle) ELSE NoCol

\* faulty variants of hasDuplicate: no fallback / a case-sensitive match
hasDuplicate_Never(userErrors) == FALSE
hasDuplicate_CaseSensitive(userErrors) ==
    \E i \in 1..Len(userErrors) :
        \/ Includes(userErrors[i].message, TAKEN)
        \/ Includes(userErrors[i].message, ALREADY)

hasDuplicate(userErrors) ==
    \E i \in 1..Len(userErrors) :
        \/ Includes(ToLowerCase(userErrors[i].message), TAKEN)
        \/ Includes(ToLowerCase(userErrors[i].message), ALREADY)

\* fetchExistingCollection: [col, threw]
fetchExistingCollection(store, name, handle, lookupScript) ==
    IF ~Delivered(lookupScript)
    THEN [col |-> NoCol, threw |-> TRUE]
    ELSE LET found == RemoteCollectionByHandle(store, handle) IN
         IF found.id # 0
         THEN [col |-> [id |-> found.id, handle |-> found.handle, name |-> name],
               threw |-> FALSE]
         ELSE [col |-> NoCol, threw |-> FALSE]

\* faulty variant of the catch of findOrCreateCollection: give up at once
CatchCreate_ReturnNull(store, name, handle, lookupScript) ==
    [col |-> NoCol, threw |-> FALSE, looked |-> FALSE]

\* the catch of findOrCreateCollection: [col, threw, looked]
CatchCreate(store, name, handle, lookupScript) ==
    LET f == fetchExistingCollection(store, name, handle, lookupScript)
    IN  [col |-> f.col, threw |-> f.threw, looked |-> TRUE]

\* findOrCreateCollection against the store `store`; c holds the remote's
\* choices for this call: [createScript, answer, conflictMsg, lookupScript].
\* Returns [col, store, created, looked, lookupThrew, createMsg, createFault],
\* createMsg being the message of the user error of the create call, <<>>
\* without one, and createFault the responses that preceded the answer.
findOrCreateCollection(store, name, handle, c) ==
    IF ~Delivered(c.createScript)
    THEN \* catch: the create call threw
         LET f == CatchCreate(store, name, handle, c.lookupScript)
         IN  [col |-> f.col, store |-> store, created |-> FALSE,
              looked |-> f.looked, lookupThrew |-> f.threw, createMsg |-> <<>>,
              createFault |-> c.createScript]
    ELSE LET r == RemoteCollectionCreate(store, name, handle, c.answer,
                                          c.conflictMsg)
         IN  IF r.collection.id # 0
             THEN [col |-> [id |-> r.collection.id,
                            handle |-> r.collection.handle, name |-> name],
                   store |-> r.store, created |-> TRUE, looked |-> FALSE,
                   lookupThrew |-> FALSE, createMsg |-> <<>>,
                   createFault |-> c.createScript]
             ELSE IF hasDuplicate(r.userErrors)
             THEN LET f == fetchExistingCollection(r.store, name, handle,
                                                   c.lookupScript)
                  IN  [col |-> f.col, store |-> r.store, created |-> FALSE,
                       looked |-> TRUE, lookupThrew |-> f.threw,
                       createMsg |-> r.userErrors[1].message,
                       createFault |-> c.createScript]
             ELSE [col |-> NoCol, store |-> r.store, created |-> FALSE,
                   looked |-> FALSE, lookupThrew |-> FALSE,
                   createMsg |-> r.userErrors[1].message,
                   createFault |-> c.createScript]

\* the faults explored for the calls of the collections step
ColFaultScripts ==
    { <<>>, <<Throttled200, Throttled200, Throttled200>>, <<Http500>>,
      <<Business200>> }
PublishFaultScripts == { <<>>, <<Http500>> }

\* the remote's choices for one findOrCreateCollection call: the answer to a
\* create for a free handle is paired with a message for a handle in use
RemoteChoices ==
    { [createScript |-> cs, answer |-> m[1], conflictMsg |-> m[2],
       lookupScript |-> ls] :
        cs \in ColFaultScripts, ls \in PublishFaultScripts,
        m \in { <<"collection", MsgHandleTaken>>,
                <<"userErrors", MsgAlreadyExists>>,
                <<"reserved", MsgHandleTaken>> } }

\* the environment of one POST: the session, the response to the
\* publications query, whether its list names the Online Store
PostEnvs ==
    { [session |-> FALSE, resp |-> Http500, onlineStore |-> FALSE],
      [session |-> TRUE, resp |-> Http500, onlineStore |-> TRUE],
      [session |-> TRUE, resp |-> [status |-> 200, hasErrors |-> FALSE,
                                   errors |-> <<>>], onlineStore |-> FALSE],
      [session |-> TRUE, resp |-> [status |-> 200, hasErrors |-> FALSE,
                                   errors |-> <<>>], onlineStore |-> TRUE] }

NoCall == [handle |-> <<>>, result |-> 0, prior |-> 0, created |-> FALSE,
           looked |-> FALSE, lookupThrew |-> FALSE, createMsg |-> <<>>,
           createFault |-> <<>>]

FirstReturned(ids, handle) == IF handle \in DOMAIN ids THEN ids[handle] ELSE 0

\* history of a findOrCreateCollection call: its result and the id an earlier
\* call with the same handle returned (0 if none did)
FocEntry(ids, handle, r) ==
    [handle |-> handle, result |-> r.col.id, prior |-> FirstReturned(ids, handle),
     created |-> r.created, looked |-> r.looked, lookupThrew |-> r.lookupThrew,
     createMsg |-> r.createMsg, createFault |-> r.createFault]

RecordReturned(ids, handle, r) ==
    IF r.col.id # 0 /\ handle \notin DOMAIN ids
    THEN [h \in DOMAIN ids \cup {handle} |->
             IF h = handle THEN r.col.id ELSE ids[h]]
    ELSE ids

ColRequests ==
    [collections : UNION { [1..n -> CollectionNames] : n \in 0..MaxCollections },
     productCount : {0, 1, BatchSize + 1}]

NoRequest == [collections |-> <<>>, productCount |-> 0]

ColVarsInit ==
    /\ colRequest = NoRequest
    /\ colPc = "idle"
    /\ colIdx = 0
    /\ publicationId = ""
    /\ createdCollections = <<>>
    /\ colErrors = <<>>
    /\ colResponse = NoResponse
    /\ remoteCollections = <<>>
    /\ published = {}
    /\ lastFoc = NoCall
    /\ returnedIds = [h \in {} |-> 0]
    /\ colRuns = 0

\* ------------------------------------------------------------------------
\* runStreamingStep: the client side of the import stream
\* (src/app/onboarding/page.tsx).  A text is a sequence of symbols: a JSON
\* object is "{", the name of its value, "}"; NL is the line feed
\* ------------------------------------------------------------------------
NL == "LF"
SP == " "

Null == [type |-> "null"]

\* a shop without a menu of handle "footer"
NoMenu == <<[id |-> 0, title |-> "", type |-> "", url |-> ""]>>

\* the values that travel on the import response, by name
JSONValues ==
    [p11 |-> ProgressRecord(1, 1),
     p12 |-> ProgressRecord(1, 2),
     p22 |-> ProgressRecord(2, 2),
     cT  |-> [type |-> "complete", success |-> TRUE, productIds |-> <<"p1">>,
              message |-> "msg"],
     cF  |-> [type |-> "complete", success |-> FALSE, productIds |-> <<>>,
              message |-> "msg"],
     e500 |-> [success |-> FALSE, errors |-> <<"_global">>],
     e401 |-> [error |-> "401"]]

\* JSON.stringify(value) for a value named k
Stringify(k) == <<"{", k, "}">>

IsBlank(text) == \A i \in 1..Len(text) : text[i] = SP

RECURSIVE TrimStart(_)
TrimStart(text) ==
    IF text # <<>> /\ Head(text) = SP THEN TrimStart(Tail(text)) ELSE text

RECURSIVE TrimEnd(_)
TrimEnd(text) ==
    IF text # <<>> /\ text[Len(text)] = SP
    THEN TrimEnd(SubSeq(text, 1, Len(text) - 1))
    ELSE text

\* JSON.parse(text): insignificant white space around the value is allowed;
\* anything but one whole object throws
JSONParse(text) ==
    LET t == TrimEnd(TrimStart(text)) IN
    IF Len(t) = 3 /\ t[1] = "{" /\ t[3] = "}" /\ t[2] \in DOMAIN JSONValues
    THEN [ok |-> TRUE, value |-> JSONValues[t[2]]]
    ELSE [ok |-> FALSE, value |-> Null]

\* text.split("\n"), `cur` being the segment under construction
RECURSIVE Split(_, _)
Split(text, cur) ==
    IF text = <<>> THEN <<cur>>
    ELSE IF Head(text) = NL THEN <<cur>> \o Split(Tail(text), <<>>)
    ELSE Split(Tail(text), Append(cur, Head(text)))

EventType(ev) == IF "type" \in DOMAIN ev THEN ev.type ELSE "undefined"

ProgressText(ev) == [processed |-> ev.processed, total |-> ev.total]
NoProgress == [processed |-> 0, total |-> 0]

\* the body of `for (const line of lines)` applied to one line; st holds
\* finalData and stepProgress
HandleLine(st, line) ==
    IF IsBlank(line) THEN st
    ELSE LET r == JSONParse(line) IN
         IF ~r.ok THEN st
         ELSE IF EventType(r.value) = "progress"
              THEN [st EXCEPT !.stepProgress = ProgressText(r.value)]
         ELSE IF EventType(r.value) = "complete"
              THEN [st EXCEPT !.finalData = r.value]
         ELSE st

RECURSIVE HandleLines(_, _)
HandleLines(st, lines) ==
    IF lines = <<>> THEN st
    ELSE HandleLines(HandleLine(st, Head(lines)), Tail(lines))

\* what follows the while loop: the rest of the buffer may hold the
\* complete record
HandleRest(fd, buf) ==
    IF IsBlank(buf) THEN fd
    ELSE LET r == JSONParse(buf) IN
         IF r.ok /\ EventType(r.value) = "complete" THEN r.value ELSE fd

\* faulty variant of Remainder: the text after the last line feed is dropped
Remainder_Dropped(lines) == <<>>

\* buffer = lines.pop() || ""
Remainder(lines) == lines[Len(lines)]

NoFinalEvent ==
    [success |-> FALSE,
     errors |-> <<[handle |-> "_stream", reason |-> "No final event received"]>>]

\* faulty variant of ReturnValue: progress alone is taken for success
ReturnValue_ProgressIsSuccess(fd, prog) ==
    IF fd # Null THEN fd
    ELSE IF prog # NoProgress THEN [success |-> TRUE, productIds |-> <<>>]
    ELSE NoFinalEvent

\* return finalData || { success: false, errors: [...] }
ReturnValue(fd, prog) == IF fd # Null THEN fd ELSE NoFinalEvent

\* the text of the bodies the import endpoint writes: a stream of lines, or
\* one JSON value without a line feed
RECURSIVE Concat(_)
Concat(texts) ==
    IF texts = <<>> THEN <<>> ELSE Head(texts) \o Concat(Tail(texts))

Line(k) == Stringify(k) \o <<NL>>

StreamBodies ==
    { Concat(<<Line("p11"), Line(c)>>) : c \in {"cT", "cF"} } \cup
    { Concat(<<Line("p12"), Line("p22"), Line(c)>>) : c \in {"cT", "cF"} } \cup
    { Line("cF") }

Prefixes(text) == { SubSeq(text, 1, n) : n \in 0..Len(text) }

\* the responses fetch may resolve with: the stream, whole or cut at any
\* point; a JSON answer; a response without a body
StreamResponses ==
    { [ok |-> TRUE, hasBody |-> TRUE, text |-> t] :
        t \in UNION { Prefixes(b) : b \in StreamBodies } } \cup
    { [ok |-> TRUE, hasBody |-> TRUE, text |-> Stringify("cF")],
      [ok |-> FALSE, hasBody |-> TRUE, text |-> Stringify("e500")],
      [ok |-> FALSE, hasBody |-> TRUE, text |-> Stringify("e401")],
      [ok |-> FALSE, hasBody |-> FALSE, text |-> Stringify("e500")],
      [ok |-> FALSE, hasBody |-> FALSE, text |-> <<>>],
      [ok |-> TRUE, hasBody |-> FALSE, text |-> <<>>] }

StreamVarsIdle ==
    /\ rsPc = "idle"
    /\ rsMode = "none"
    /\ rsWire = <<>>
    /\ rsEnding = "done"
    /\ rsReceived = <<>>
    /\ buffer = <<>>
    /\ finalData = Null
    /\ stepProgress = NoProgress
    /\ rsResult = Null

\* ------------------------------------------------------------------------
\* Theme upload (step4-theme, and its staged-upload version), image upload
\* (uploadSingleImage, uploadAndResolveImage) and their polling loops
\* ------------------------------------------------------------------------
\* const MAX_POLLS of waitForProcessing and of uploadAndResolveImage
ThemeMaxPolls == 60
ImageMaxPolls == 30

NoBlob == ""
BlobName == "themes/store.zip"

\* faulty variant of PollLoopCondition: one iteration too many
PollLoopCondition_Inclusive(i, max) == i <= max

\* i < MAX_POLLS
PollLoopCondition(i, max) == i < max

\* the statuses the storage endpoint may answer a transfer with; 0 stands
\* for a fetch that rejects
TransferStatuses == {0, 200, 201, 204, 403, 500}

\* res.ok of a fetch response
StatusOk(status) == status \in 200..299

\* if (!uploadRes.ok && uploadRes.status !== 201): the transfer failed
TransferFailed(status) == ~StatusOk(status) /\ status # 201

\* del(url) of @vercel/blob: resolves and removes the blob, or rejects
Del(store, url, delOk) == IF delOk THEN store \ {url} ELSE store

\* finally { if (blobUrl) { try { await del(blobUrl) } catch {} } }
Finally(store, url, delOk) == IF url # NoBlob THEN Del(store, url, delOk) ELSE store

ThemeResponse(status, success, themeId, message) ==
    [status |-> status, success |-> success, themeId |-> themeId,
     message |-> message]

\* the responses of the step4 POST by exit path
ThemeExit(end) ==
    CASE end = "unauthenticated" -> ThemeResponse(401, FALSE, "", "Nao autenticado.")
      [] end = "noZip" -> ThemeResponse(400, FALSE, "", "Arquivo nao fornecido.")
      [] end = "existing" -> ThemeResponse(200, TRUE, "existing", "reutilizado")
      [] end = "stagedUserErrors" -> ThemeResponse(200, FALSE, "", "Staged upload falhou")
      [] end = "noTarget" -> ThemeResponse(200, FALSE, "", "nao retornou target")
      [] end = "transferFailed" -> ThemeResponse(200, FALSE, "", "Upload do .zip falhou")
      [] end = "userErrors" -> ThemeResponse(200, FALSE, "", "userErrors")
      [] end = "noId" -> ThemeResponse(200, FALSE, "", "themeCreate nao retornou ID.")
      [] end = "timeout" -> ThemeResponse(200, FALSE, "t1", "Timeout")
      [] end = "ready" -> ThemeResponse(200, TRUE, "t1", "enviado e processado")
      [] OTHER -> ThemeResponse(500, FALSE, "", "Erro interno")

\* the return values of uploadAndResolveImage by exit path
ImageExit(end) ==
    CASE end = "readyAtOnce" -> [id |-> "f1", imageUrl |-> "cdn/f1"]
      [] end = "ready" -> [id |-> "f1", imageUrl |-> "cdn/f1"]
      [] end = "readyNoUrl" -> [id |-> "f1", imageUrl |-> ""]
      [] OTHER -> Null

\* the return values of uploadSingleImage by exit path
StagedExit(end) ==
    IF end = "created" THEN [key |-> "logo", url |-> "staged/logo"] ELSE Null

Call(op, status) == [op |-> op, status |-> status]

UploadVarsInit ==
    /\ upPc = "idle"
    /\ pollI = 0
    /\ pollQueries = 0
    /\ pollThrew = FALSE
    /\ upEnd = "none"
    /\ upResult = Null
    /\ blobUrl = NoBlob
    /\ blobs = {}
    /\ upCalls = <<>>
    /\ themeRuns = 0
    /\ themeIdx = 0

UpsertVarsIdle ==
    /\ usMax = 0
    /\ usAttempt = 0
    /\ usPc = "done"
    /\ usLog = <<>>
    /\ usWaits = <<>>
    /\ usResult = Null

AwaitVarsInit ==
    /\ awHandler = "none"
    /\ awIdx = 0
    /\ awPc = "loop"
    /\ awRunning = FALSE
    /\ awFailed = 0
    /\ awActivations = 0
    /\ stepsInFlight = <<>>
    /\ srvPc = "idle"
    /\ srvIdx = 0
    /\ srvTotal = 0
    /\ callsInFlight = <<>>

MenuVarsIdle ==
    /\ footerMenu = NoMenu
    /\ footerInit = NoMenu
    /\ mnRuns = 0
    /\ mnApplied = 0
    /\ mnResponse = Null

\* useState: one collection row without a name, no image chosen
InitialForm == [names |-> << <<>> >>, images |-> {}]

LastVarsIdle == MenuVarsIdle /\ form = InitialForm

MoreVarsIdle == UpsertVarsIdle /\ AwaitVarsInit /\ LastVarsIdle

ExtVarsIdle ==
    /\ StreamVarsIdle
    /\ upKind = "theme"
    /\ UploadVarsInit
    /\ remoteThemes = 0
    /\ themeProcessing = <<>>
    /\ MoreVarsIdle

RetryVarsInit ==
    /\ maxRetries = 0
    /\ attempt = 0
    /\ requests = <<>>
    /\ delays = <<>>
    /\ gqlState = "running"
    /\ gqlError = NoError

RetryInit ==
    /\ PipeVarsInit
    /\ ImpVarsIdle
    /\ entries = <<>>
    /\ ColVarsInit
    /\ ExtVarsIdle
    /\ maxRetries \in 0..MaxRetriesBound
    /\ attempt = 0
    /\ requests = <<>>
    /\ delays = <<>>
    /\ gqlState = "running"
    /\ gqlError = NoError

\* one iteration of the for loop: a request, its response, the catch block
Attempt ==
    /\ gqlState = "running"
    /\ LoopCondition(attempt, maxRetries)
    /\ \E resp \in Responses :
         LET out == graphql(resp, attempt) IN
         /\ requests' = Append(requests, resp)
         /\ IF out.ok
            THEN /\ gqlState' = "returned"
                 /\ UNCHANGED <<attempt, delays, gqlError>>
            ELSE IF CatchDecision(out.err, attempt, maxRetries) = "continue"
            THEN /\ delays' = Append(delays, [after |-> attempt,
                                              ms |-> backoffMs(attempt)])
                 /\ attempt' = attempt + 1
                 /\ UNCHANGED <<gqlState, gqlError>>
            ELSE /\ gqlState' = "threw"
                 /\ gqlError' = out.err
                 /\ UNCHANGED <<attempt, delays>>
    /\ UNCHANGED <<maxRetries, notRetryVars>>

\* the statement after the loop
Exhausted ==
    /\ gqlState = "running"
    /\ ~LoopCondition(attempt, maxRetries)
    /\ gqlState' = "threw"
    /\ gqlError' = MaxRetriesExhausted
    /\ UNCHANGED <<maxRetries, attempt, requests, delays, notRetryVars>>

RetryNext == Attempt \/ Exhausted

SpecRetry == RetryInit /\ [][RetryNext]_vars

\* ------------------------------------------------------------------------
\* Specification of the orchestrator (handleStart / handleRetry)
\* ------------------------------------------------------------------------
histVars == <<lastFailed, resumeK, resumePipe>>

\* the user picks a CSV file (inputs are disabled while running)
setCsvFile ==
    /\ ~running
    /\ handler = "none"
    /\ \E f \in CsvFiles : csvFile' = f
    /\ UNCHANGED <<running, currentStep, completedSteps, stepErrors, done, pipe,
                   handler, loopIdx, lastHandler, invoked, outcomes, histVars,
                   activations, notPipeVars>>

\* handleStart up to its first runStep: the submit button is disabled while
\* running; without a file the handler returns at once
handleStart ==
    /\ ~running
    /\ handler = "none"
    /\ activations < MaxActivations
    /\ csvFile # NoFile
    /\ activations' = activations + 1
    /\ running' = TRUE
    /\ completedSteps' = <<>>
    /\ stepErrors' = EmptyMap
    /\ done' = FALSE
    /\ lastHandler' = "start"
    /\ invoked' = <<>>
    /\ outcomes' = <<>>
    /\ \E readOk \in BOOLEAN :
         IF readOk
         THEN /\ pipe' = [pipe EXCEPT !.csvText = csvFile]
              /\ handler' = "start"
              /\ loopIdx' = 1
         ELSE \* readFileAsText rejects: the handler ends, nothing resets running
              /\ handler' = "none"
              /\ UNCHANGED <<pipe, loopIdx>>
    /\ UNCHANGED <<csvFile, currentStep, histVars, notPipeVars>>

\* one iteration of the for loop of handleStart (and what follows the loop
\* when it was the last one)
StartLoopStep ==
    /\ handler = "start"
    /\ LET stepDef == STEPS[loopIdx] IN
       /\ currentStep' = stepDef.id
       /\ invoked' = Append(invoked, stepDef.id)
       /\ \E out \in RunStepOutcomes(stepDef.id, pipe) :
            /\ pipe' = out.pipe
            /\ IF out.threw
               THEN /\ stepErrors' = PutKey(stepErrors, stepDef.id, out.message)
                    /\ running' = FALSE
                    /\ handler' = CatchReturn(handler, loopIdx).handler
                    /\ loopIdx' = CatchReturn(handler, loopIdx).loopIdx
                    /\ outcomes' = Append(outcomes, "failed")
                    /\ lastFailed' = stepDef.id
                    /\ UNCHANGED <<completedSteps, done>>
               ELSE /\ completedSteps' = Append(completedSteps, stepDef.id)
                    /\ outcomes' = Append(outcomes, "ok")
                    /\ IF loopIdx = Len(STEPS)
                       THEN /\ done' = TRUE
                            /\ running' = FALSE
                            /\ handler' = "none"
                            /\ UNCHANGED loopIdx
                       ELSE /\ loopIdx' = loopIdx + 1
                            /\ UNCHANGED <<done, running, handler>>
                    /\ UNCHANGED <<stepErrors, lastFailed>>
    /\ UNCHANGED <<csvFile, lastHandler, resumeK, resumePipe, activations,
                   notPipeVars>>

\* handleRetry up to its first runStep: the retry button is rendered only
\* when stepErrors is not empty and running is false
handleRetry ==
    /\ ~running
    /\ handler = "none"
    /\ activations < MaxActivations
    /\ DOMAIN stepErrors # {}
    /\ activations' = activations + 1
    /\ running' = TRUE
    /\ lastHandler' = "retry"
    /\ invoked' = <<>>
    /\ outcomes' = <<>>
    /\ resumeK' = lastFailed
    /\ resumePipe' = pipe
    /\ LET failedIdx == FindFailedIdx(stepErrors) IN
       IF failedIdx = 0
       THEN /\ handler' = "none"
            /\ UNCHANGED <<stepErrors, loopIdx>>
       ELSE /\ stepErrors' = DeleteKey(stepErrors, STEPS[failedIdx].id)
            /\ handler' = "retry"
            /\ loopIdx' = RetryStartIdx(failedIdx)
    /\ UNCHANGED <<csvFile, currentStep, completedSteps, done, pipe, lastFailed,
                   notPipeVars>>

\* one iteration of the for loop of handleRetry (and what follows the loop
\* when it was the last one)
RetryLoopStep ==
    /\ handler = "retry"
    /\ LET stepDef == STEPS[loopIdx] IN
       /\ currentStep' = stepDef.id
       /\ invoked' = Append(invoked, stepDef.id)
       /\ \E out \in RunStepOutcomes(stepDef.id, pipe) :
            /\ pipe' = out.pipe
            /\ IF out.threw
               THEN /\ stepErrors' = PutKey(stepErrors, stepDef.id, out.message)
                    /\ running' = FALSE
                    /\ handler' = CatchReturn(handler, loopIdx).handler
                    /\ loopIdx' = CatchReturn(handler, loopIdx).loopIdx
                    /\ outcomes' = Append(outcomes, "failed")
                    /\ lastFailed' = stepDef.id
                    /\ UNCHANGED <<completedSteps, done>>
               ELSE /\ completedSteps' =
                          IF SeqIncludes(completedSteps, stepDef.id)
                          THEN completedSteps
                          ELSE Append(completedSteps, stepDef.id)
                    /\ outcomes' = Append(outcomes, "ok")
                    /\ IF loopIdx = Len(STEPS)
                       THEN /\ done' = TRUE
                            /\ running' = FALSE
                            /\ handler' = "none"
                            /\ UNCHANGED loopIdx
                       ELSE /\ loopIdx' = loopIdx + 1
                            /\ UNCHANGED <<done, running, handler>>
                    /\ UNCHANGED <<stepErrors, lastFailed>>
    /\ UNCHANGED <<csvFile, lastHandler, resumeK, resumePipe, activations,
                   notPipeVars>>

PipelineInit ==
    /\ RetryVarsInit
    /\ PipeVarsInit
    /\ ImpVarsIdle
    /\ entries = <<>>
    /\ ColVarsInit
    /\ ExtVarsIdle

PipelineNext ==
    \/ setCsvFile
    \/ handleStart
    \/ StartLoopStep
    \/ handleRetry
    \/ RetryLoopStep

SpecPipeline == PipelineInit /\ [][PipelineNext]_vars

\* every awaited step request settles: a suspended loop goes on
FairSpecPipeline ==
    SpecPipeline /\ WF_vars(StartLoopStep) /\ WF_vars(RetryLoopStep)

\* ------------------------------------------------------------------------
\* Specification of the product import endpoint (step2-products POST)
\* ------------------------------------------------------------------------
\* faulty variant of ErrorsAfterVariants: a variant failure is pushed to errors
ErrorsAfterVariants_Counted(errs, handle, variantOutcome) ==
    IF variantOutcome \in {"userErrors", "threw"}
    THEN Append(errs, [handle |-> handle, reason |-> "variants"])
    ELSE errs

\* the errors array after the variant call of a created product: a variant
\* failure is written to the log only
ErrorsAfterVariants(errs, handle, variantOutcome) == errs

\* faulty variant of ProcessedAfter: the userErrors branch continues without counting
ProcessedAfter_SkipUserErrors(p, createOutcome) ==
    IF createOutcome = "userErrors" THEN p ELSE p + 1

\* processed++ at the end of every path through the loop body
ProcessedAfter(p, createOutcome) == p + 1

\* faulty variant of CloseStream: the complete record is written before the last
\* progress record
CloseStream_CompleteFirst(strm, complete) ==
    IF strm = <<>> THEN <<complete>>
    ELSE SubSeq(strm, 1, Len(strm) - 1) \o <<complete, strm[Len(strm)]>>

\* controller.enqueue(result) and controller.close() after the loop
CloseStream(strm, complete) == Append(strm, complete)

\* faulty variant of LoopContinues: an exception ends the loop
LoopContinues_AbortOnThrow(createOutcome) == createOutcome # "threw"

\* the try/catch lies inside the for loop: after any outcome of an item the
\* loop goes on to the next entry
LoopContinues(createOutcome) == TRUE

\* faulty variant of IdsAfterVariants: a variant failure retracts the product
IdsAfterVariants_Retract(ids, variantOutcome) ==
    IF variantOutcome \in {"userErrors", "threw"}
    THEN SubSeq(ids, 1, Len(ids) - 1)
    ELSE ids

\* productIds after the variant call of a created product: untouched
IdsAfterVariants(ids, variantOutcome) == ids

\* faulty variant of ResultRecord: any failed item makes the batch fail
ResultRecord_AllOrNothing(ids, errs, total) ==
    CompleteRecord(Len(errs) = 0, ids, errs, Len(errs), total)

\* the complete record built after the loop
ResultRecord(ids, errs, total) ==
    CompleteRecord(Len(ids) > 0, ids, errs, Len(errs), total)

\* POST up to the first await of the stream: session check, parsing, location
\* lookup, and the construction of the stream
ImportExecute ==
    /\ impRuns < MaxImpRuns
    /\ impRuns' = impRuns + 1
    /\ LET total == Len(entries) IN
       \E session \in BOOLEAN, parsed \in BOOLEAN, script \in FaultScripts,
          locations \in {0, 1} :
         IF ~session
         THEN /\ impStatus' = 401
              /\ stream' = << [error |-> "Nao autenticado."] >>
              /\ impPc' = "json"
              /\ callLog' = <<>>
              /\ UNCHANGED impIdx
         ELSE IF ~parsed
         THEN /\ impStatus' = 500
              /\ stream' = << [success |-> FALSE,
                               errors |-> << [handle |-> "_global",
                                              reason |-> "fatal"] >>] >>
              /\ impPc' = "json"
              /\ callLog' = <<>>
              /\ UNCHANGED impIdx
         ELSE IF ~Delivered(script) \/ locations = 0
         THEN \* fetchLocationId threw
              /\ impStatus' = 200
              /\ stream' = << LocationFailure(total) >>
              /\ impPc' = "json"
              /\ callLog' =
                     <<[op |-> "locations", handle |-> "", outcome |-> "threw"]>>
              /\ UNCHANGED impIdx
         ELSE /\ impStatus' = 200
              /\ callLog' =
                     <<[op |-> "locations", handle |-> "", outcome |-> "ok"]>>
              /\ impIdx' = 1
              /\ IF total = 0
                 THEN /\ stream' = CloseStream(<<>>, ResultRecord(<<>>, <<>>, total))
                      /\ impPc' = "closed"
                 ELSE /\ stream' = <<>>
                      /\ impPc' = "loop"
    /\ productIds' = <<>>
    /\ errors' = <<>>
    /\ processed' = 0
    /\ UNCHANGED <<entries, remoteProducts, notImpVars>>

\* the first execution of the step
ImportPost ==
    /\ impPc = "idle"
    /\ ImportExecute

\* an execution of the step after an earlier one ended: the resume of a
\* failed step 2, or a new full run
ImportAgain ==
    /\ impPc \in {"closed", "json"}
    /\ ImportExecute

\* one iteration of the for loop over entries (and what follows the loop when
\* it was the last one)
ImportItem ==
    /\ impPc = "loop"
    /\ impIdx <= Len(entries)
    /\ LET total == Len(entries)
           handle == entries[impIdx].handle
           rows == entries[impIdx].rows
       IN
       \E script \in FaultScripts, answer \in CreateAnswers,
          vscript \in FaultScripts, vanswer \in VariantAnswers :
         LET createOutcome ==
                 IF ~Delivered(script) THEN "threw" ELSE answer
             created == createOutcome = "product"
             id == NewProductId(remoteProducts)
             variants == buildVariants(rows)
             variantOutcome ==
                 IF ~created \/ Len(variants) = 0 THEN "none"
                 ELSE IF ~Delivered(vscript) THEN "threw"
                 ELSE vanswer
             ids == IF created
                    THEN IdsAfterVariants(Append(productIds, id), variantOutcome)
                    ELSE productIds
             errs ==
                 IF created
                 THEN ErrorsAfterVariants(errors, handle, variantOutcome)
                 ELSE Append(errors, [handle |-> handle, reason |-> createOutcome])
             p == ProcessedAfter(processed, createOutcome)
             strm == Append(stream, ProgressRecord(p, total))
             createCall == [op |-> "productCreate", handle |-> handle,
                            outcome |-> createOutcome]
             variantCall == [op |-> "productVariantsBulkCreate",
                             handle |-> handle, outcome |-> variantOutcome]
         IN
         /\ remoteProducts' =
                IF created
                THEN Append(remoteProducts, [id |-> id, handle |-> handle])
                ELSE remoteProducts
         /\ callLog' =
                IF variantOutcome = "none"
                THEN Append(callLog, createCall)
                ELSE callLog \o <<createCall, variantCall>>
         /\ productIds' = ids
         /\ errors' = errs
         /\ processed' = p
         /\ impIdx' = impIdx + 1
         /\ IF impIdx = total \/ ~LoopContinues(createOutcome)
            THEN /\ stream' = CloseStream(strm, ResultRecord(ids, errs, total))
                 /\ impPc' = "closed"
            ELSE /\ stream' = strm
                 /\ impPc' = "loop"
    /\ UNCHANGED <<entries, impStatus, impRuns, notImpVars>>

ImportInit ==
    /\ RetryVarsInit
    /\ PipeVarsInit
    /\ ImpVarsIdle
    /\ entries \in Catalogs
    /\ ColVarsInit
    /\ ExtVarsIdle

ImportNext == ImportPost \/ ImportItem

SpecImport == ImportInit /\ [][ImportNext]_vars

\* the import step executed repeatedly with the same catalog and store
ImportRerunNext == ImportPost \/ ImportItem \/ ImportAgain

SpecImportRerun == ImportInit /\ [][ImportRerunNext]_vars

\* ------------------------------------------------------------------------
\* Specification of the collections endpoint (step3-collections POST)
\* ------------------------------------------------------------------------
\* publishToOnlineStore: the set of published ids after the call
publishToOnlineStore(pubs, resourceId, script) ==
    IF Delivered(script) THEN pubs \cup {resourceId} ELSE pubs

\* faulty variant of ErrorsAfterPublish: a failed publish is a step error
ErrorsAfterPublish_Reported(errs, name, pubId, script) ==
    IF pubId # "" /\ ~Delivered(script)
    THEN Append(errs, [name |-> name, reason |-> "publish failed"])
    ELSE errs

\* the errors array after `if (publicationId) await publishToOnlineStore`:
\* the catch block of publishToOnlineStore only logs
ErrorsAfterPublish(errs, name, pubId, script) == errs

\* the `success` member of the response of the step
StepSuccess(created, bsId) == Len(created) > 0 \/ bsId # 0

\* POST up to the for loop: session check, body, fetchOnlineStorePublicationId
ColPost ==
    /\ colPc \in {"idle", "done"}
    /\ colRuns < MaxColRuns
    /\ colRuns' = colRuns + 1
    /\ createdCollections' = <<>>
    /\ colErrors' = <<>>
    /\ \E req \in ColRequests, env \in PostEnvs :
         /\ colRequest' = req
         /\ IF ~env.session
            THEN /\ colResponse' = [status |-> 401]
                 /\ colPc' = "done"
                 /\ UNCHANGED <<colIdx, publicationId>>
            ELSE /\ publicationId' =
                       IF graphql(env.resp, 0).ok /\ env.onlineStore THEN "pub"
                       ELSE ""
                 /\ colResponse' = NoResponse
                 /\ colIdx' = 1
                 /\ colPc' = IF Len(req.collections) = 0 THEN "bestSellers"
                                                          ELSE "loop"
    /\ UNCHANGED <<remoteCollections, published, lastFoc, returnedIds, notColVars>>

\* one iteration of the for loop over collectionNames
ColLoopItem ==
    /\ colPc = "loop"
    /\ LET name == colRequest.collections[colIdx]
           handle == slugify(name)
       IN
       \E c \in RemoteChoices, pubScript \in PublishFaultScripts :
         LET r == findOrCreateCollection(remoteCollections, name, handle, c) IN
         /\ remoteCollections' = r.store
         /\ lastFoc' = FocEntry(returnedIds, handle, r)
         /\ returnedIds' = RecordReturned(returnedIds, handle, r)
         /\ IF r.col.id # 0
            THEN /\ createdCollections' = Append(createdCollections, r.col)
                 /\ published' =
                        IF publicationId # ""
                        THEN publishToOnlineStore(published, r.col.id, pubScript)
                        ELSE published
                 /\ colErrors' = ErrorsAfterPublish(colErrors, name,
                                                    publicationId, pubScript)
            ELSE /\ colErrors' = Append(colErrors,
                        [name |-> name, reason |-> "create failed, none found"])
                 /\ UNCHANGED <<createdCollections, published>>
    /\ colIdx' = colIdx + 1
    /\ colPc' = IF colIdx = Len(colRequest.collections) THEN "bestSellers"
                                                         ELSE "loop"
    /\ UNCHANGED <<colRequest, publicationId, colResponse, colRuns, notColVars>>

\* the rest of POST: Best Sellers, the product batches, the response
ColBestSellers ==
    /\ colPc = "bestSellers"
    /\ \E c \in RemoteChoices, pubScript \in PublishFaultScripts :
         LET r == findOrCreateCollection(remoteCollections, BestSellersTitle,
                                         BestSellersHandle, c)
             bestSellersId == r.col.id
             batches ==
                 IF bestSellersId # 0
                 THEN chunkArray(colRequest.productCount, BatchSize)
                 ELSE <<>>
             errs0 ==
                 IF bestSellersId # 0
                 THEN ErrorsAfterPublish(colErrors, BestSellersTitle,
                                         publicationId, pubScript)
                 ELSE Append(colErrors, [name |-> BestSellersTitle,
                                         reason |-> "create/find failed"])
         IN
         \E batchScripts \in [1..Len(batches) -> {<<>>, <<Http500>>}] :
           LET failedBatches ==
                   SelectSeq([i \in 1..Len(batches) |-> i],
                             LAMBDA i : ~Delivered(batchScripts[i]))
               errs == errs0 \o
                   [k \in 1..Len(failedBatches) |->
                       [name |-> <<"batch", failedBatches[k]>>,
                        reason |-> "threw"]]
           IN
           /\ remoteCollections' = r.store
           /\ lastFoc' = FocEntry(returnedIds, BestSellersHandle, r)
           /\ returnedIds' = RecordReturned(returnedIds, BestSellersHandle, r)
           /\ published' =
                  IF bestSellersId # 0 /\ publicationId # ""
                  THEN publishToOnlineStore(published, bestSellersId, pubScript)
                  ELSE published
           /\ colErrors' = errs
           /\ colResponse' =
                  [status |-> 200,
                   success |-> StepSuccess(createdCollections, bestSellersId),
                   collections |-> createdCollections,
                   bestSellersId |-> bestSellersId,
                   created |-> Len(createdCollections),
                   errors |-> errs]
    /\ colPc' = "done"
    /\ UNCHANGED <<colRequest, colIdx, publicationId, createdCollections, colRuns,
                   notColVars>>

CollectionsInit ==
    /\ RetryVarsInit
    /\ PipeVarsInit
    /\ ImpVarsIdle
    /\ entries = <<>>
    /\ ColVarsInit
    /\ ExtVarsIdle

CollectionsNext == ColPost \/ ColLoopItem \/ ColBestSellers

SpecCollections == CollectionsInit /\ [][CollectionsNext]_vars

\* ------------------------------------------------------------------------
\* Specification of runStreamingStep inside runStep for step 2, called by
\* the loop of handleStart after step 1 succeeded
\* ------------------------------------------------------------------------
\* bound of the bytes one reader.read() delivers, in symbols
MaxChunk == 5

Min(a, b) == IF a < b THEN a ELSE b

\* the catch block of the handleStart loop for the step of index loopIdx
StepFailed(message) ==
    /\ stepErrors' = PutKey(stepErrors, STEPS[loopIdx].id, message)
    /\ running' = FALSE
    /\ handler' = CatchReturn(handler, loopIdx).handler
    /\ loopIdx' = CatchReturn(handler, loopIdx).loopIdx
    /\ outcomes' = Append(outcomes, "failed")
    /\ lastFailed' = STEPS[loopIdx].id
    /\ UNCHANGED <<completedSteps, done>>

\* runStep after it obtained data, and the rest of the loop iteration
StepFinished(data) ==
    /\ pipe' = applyPipelineData(pipe, STEPS[loopIdx].id, data)
    /\ IF ~(Has(data, "success") /\ data.success)
       THEN StepFailed(SummaryMessage(STEPS[loopIdx].id, data))
       ELSE /\ completedSteps' = Append(completedSteps, STEPS[loopIdx].id)
            /\ outcomes' = Append(outcomes, "ok")
            /\ loopIdx' = loopIdx + 1
            /\ UNCHANGED <<done, running, handler, stepErrors, lastFailed>>

\* runStreamingStep up to the first reader.read(): the fetch, and the
\* answer without a stream
StreamFetch ==
    /\ rsPc = "idle"
    /\ handler = "start" /\ STEPS[loopIdx].streaming
    /\ \E res \in StreamResponses, ending \in {"done", "reject"} :
         IF ~res.ok /\ ~res.hasBody
         THEN \* return await res.json(), which throws on an empty body
              /\ LET r == JSONParse(res.text) IN
                 /\ rsPc' = IF r.ok THEN "returned" ELSE "threw"
                 /\ rsResult' = r.value
              /\ rsMode' = "json"
              /\ UNCHANGED <<rsWire, rsEnding, rsReceived>>
         ELSE IF ~res.hasBody
         THEN \* res.body!.getReader() on a null body
              /\ rsPc' = "threw"
              /\ UNCHANGED <<rsMode, rsWire, rsEnding, rsReceived, rsResult>>
         ELSE /\ rsPc' = "reading"
              /\ rsMode' = "stream"
              /\ rsWire' = res.text
              /\ rsEnding' = ending
              /\ rsReceived' = <<>>
              /\ UNCHANGED rsResult
    /\ buffer' = <<>>
    /\ finalData' = Null
    /\ stepProgress' = NoProgress
    /\ UNCHANGED <<pipeVars, retryVars, impVars, colVars, uploadVars, moreVars>>

\* one iteration of the while loop with readerDone false
ReadChunk ==
    /\ rsPc = "reading"
    /\ rsWire # <<>>
    /\ \E n \in 1..Min(Len(rsWire), MaxChunk) :
         LET value == SubSeq(rsWire, 1, n)
             lines == Split(buffer \o value, <<>>)
             st == HandleLines([finalData |-> finalData,
                                stepProgress |-> stepProgress],
                               SubSeq(lines, 1, Len(lines) - 1))
         IN /\ rsWire' = SubSeq(rsWire, n + 1, Len(rsWire))
            /\ rsReceived' = rsReceived \o value
            /\ buffer' = Remainder(lines)
            /\ finalData' = st.finalData
            /\ stepProgress' = st.stepProgress
    /\ UNCHANGED <<rsPc, rsMode, rsEnding, rsResult, pipeVars, retryVars, impVars,
                   colVars, uploadVars, moreVars>>

\* the iteration with readerDone true, the rest of the buffer, the return
ReadDone ==
    /\ rsPc = "reading"
    /\ rsWire = <<>>
    /\ rsEnding = "done"
    /\ finalData' = HandleRest(finalData, buffer)
    /\ rsResult' = ReturnValue(finalData', stepProgress)
    /\ rsPc' = "returned"
    /\ UNCHANGED <<rsMode, rsWire, rsEnding, rsReceived, buffer, stepProgress,
                   pipeVars, retryVars, impVars, colVars, uploadVars, moreVars>>

\* reader.read() rejects (the connection broke): runStreamingStep throws
ReadReject ==
    /\ rsPc = "reading"
    /\ rsWire = <<>>
    /\ rsEnding = "reject"
    /\ rsPc' = "threw"
    /\ UNCHANGED <<rsMode, rsWire, rsEnding, rsReceived, buffer, finalData,
                   stepProgress, rsResult, pipeVars, retryVars, impVars,
                   colVars, uploadVars, moreVars>>

\* runStep after runStreamingStep returned, and the rest of the iteration
\* of the handleStart loop
StreamStepReturned ==
    /\ rsPc = "returned"
    /\ rsPc' = "recorded"
    /\ StepFinished(rsResult)
    /\ UNCHANGED <<csvFile, currentStep, lastHandler, invoked, resumeK,
                   resumePipe, activations>>
    /\ UNCHANGED <<rsMode, rsWire, rsEnding, rsReceived, buffer, finalData,
                   stepProgress, rsResult, retryVars, impVars, colVars, uploadVars, moreVars>>

\* runStreamingStep threw: the catch block of the handleStart loop
StreamStepThrew ==
    /\ rsPc = "threw"
    /\ rsPc' = "recorded"
    /\ StepFailed("Failed to fetch")
    /\ UNCHANGED <<csvFile, currentStep, pipe, lastHandler, invoked, resumeK,
                   resumePipe, activations>>
    /\ UNCHANGED <<rsMode, rsWire, rsEnding, rsReceived, buffer, finalData,
                   stepProgress, rsResult, retryVars, impVars, colVars, uploadVars, moreVars>>

\* handleStart suspended in runStep(STEPS[1]) after step 1 succeeded
StreamInit ==
    /\ RetryVarsInit
    /\ ImpVarsIdle
    /\ entries = <<>>
    /\ ColVarsInit
    /\ ExtVarsIdle
    /\ csvFile \in CsvFiles
    /\ running = TRUE
    /\ currentStep = 2
    /\ completedSteps = <<1>>
    /\ stepErrors = EmptyMap
    /\ done = FALSE
    /\ pipe = [EmptyPipe EXCEPT !.csvText = csvFile, !.totalProducts = 2]
    /\ handler = "start"
    /\ loopIdx = 2
    /\ lastHandler = "start"
    /\ invoked = <<1, 2>>
    /\ outcomes = <<"ok">>
    /\ lastFailed = 0
    /\ resumeK = 0
    /\ resumePipe = EmptyPipe
    /\ activations = 1

StreamNext ==
    \/ StreamFetch
    \/ ReadChunk
    \/ ReadDone
    \/ ReadReject
    \/ StreamStepReturned
    \/ StreamStepThrew

SpecStream == StreamInit /\ [][StreamNext]_vars

\* ------------------------------------------------------------------------
\* Specification of the theme upload, the image uploads and their polling
\* ------------------------------------------------------------------------
\* an exit of the operation: the response, and the finally block of step4
UploadExit(end, result, url, store, delOk) ==
    /\ upPc' = "done"
    /\ upEnd' = end
    /\ upResult' = result
    /\ blobUrl' = url
    /\ blobs' = Finally(store, url, delOk)

\* findExistingTheme: the theme list is queried with client.graphql (no
\* retry); a query that throws is logged and answered with null
findExistingTheme(listOk, themes) == listOk /\ themes > 0

\* step4-theme POST up to the first poll
ThemePost ==
    /\ upKind = "theme" /\ upPc = "idle"
    /\ \E session, zip, listOk, putOk, delOk \in BOOLEAN,
          script \in FaultScripts, answer \in {"theme", "userErrors", "noId"} :
         LET existing == findExistingTheme(listOk, remoteThemes)
             stored == blobs \cup {BlobName}
             putCall == <<Call("put", 200)>>
             createCalls == putCall \o <<Call("themeCreate", 200)>>
             created == session /\ zip /\ ~existing /\ putOk /\ Delivered(script)
                        /\ answer = "theme"
         IN
         /\ remoteThemes' = IF created THEN remoteThemes + 1 ELSE remoteThemes
         /\ themeProcessing' = IF created THEN Append(themeProcessing, TRUE)
                                ELSE themeProcessing
         /\ themeIdx' = IF session /\ zip /\ existing
                         THEN 1  \* nodes.find: the first theme of that name
                         ELSE IF created THEN remoteThemes + 1
                         ELSE 0
         /\ IF ~session
            THEN /\ UploadExit("unauthenticated", ThemeExit("unauthenticated"),
                               NoBlob, blobs, delOk)
                 /\ UNCHANGED upCalls
            ELSE IF ~zip
            THEN /\ UploadExit("noZip", ThemeExit("noZip"), NoBlob, blobs, delOk)
                 /\ UNCHANGED upCalls
            ELSE IF existing
            THEN /\ UploadExit("existing", ThemeExit("existing"), NoBlob, blobs,
                               delOk)
                 /\ UNCHANGED upCalls
            ELSE IF ~putOk
            THEN /\ UploadExit("threw", ThemeExit("threw"), NoBlob, blobs, delOk)
                 /\ upCalls' = <<Call("put", 500)>>
            ELSE IF ~Delivered(script)
            THEN /\ UploadExit("threw", ThemeExit("threw"), BlobName, stored, delOk)
                 /\ upCalls' = createCalls
            ELSE IF answer # "theme"
            THEN /\ UploadExit(answer, ThemeExit(answer), BlobName, stored, delOk)
                 /\ upCalls' = createCalls
            ELSE /\ upPc' = "polling"
                 /\ blobUrl' = BlobName
                 /\ blobs' = stored
                 /\ upCalls' = createCalls
                 /\ UNCHANGED <<upEnd, upResult>>
    /\ UNCHANGED <<upKind, pollI, pollQueries, pollThrew, themeRuns, notUploadVars>>

\* the staged-upload version of the step4 POST up to the first poll
ThemeStagedPost ==
    /\ upKind = "themeStaged" /\ upPc = "idle"
    /\ \E session, zip, listOk \in BOOLEAN, script \in FaultScripts,
          staged \in {"target", "userErrors", "noTarget"},
          status \in TransferStatuses, cscript \in FaultScripts,
          answer \in {"theme", "userErrors", "noId"} :
         LET existing == findExistingTheme(listOk, remoteThemes)
             created == session /\ zip /\ ~existing /\ Delivered(script)
                        /\ staged = "target" /\ status # 0
                        /\ ~TransferFailed(status) /\ Delivered(cscript)
                        /\ answer = "theme"
             stagedCall == <<Call("stagedUploadsCreate", 200)>>
             transfer == stagedCall \o <<Call("transfer", status)>>
             createCalls == transfer \o <<Call("themeCreate", 200)>>
             Exit(end) == UploadExit(end, ThemeExit(end), NoBlob, blobs, TRUE)
         IN
         /\ remoteThemes' = IF created THEN remoteThemes + 1 ELSE remoteThemes
         /\ themeProcessing' = IF created THEN Append(themeProcessing, TRUE)
                                ELSE themeProcessing
         /\ themeIdx' = IF session /\ zip /\ existing
                         THEN 1  \* nodes.find: the first theme of that name
                         ELSE IF created THEN remoteThemes + 1
                         ELSE 0
         /\ IF ~session THEN Exit("unauthenticated") /\ UNCHANGED upCalls
            ELSE IF ~zip THEN Exit("noZip") /\ UNCHANGED upCalls
            ELSE IF existing THEN Exit("existing") /\ UNCHANGED upCalls
            ELSE IF ~Delivered(script)
            THEN Exit("threw") /\ upCalls' = stagedCall
            ELSE IF staged = "userErrors"
            THEN Exit("stagedUserErrors") /\ upCalls' = stagedCall
            ELSE IF staged = "noTarget"
            THEN Exit("noTarget") /\ upCalls' = stagedCall
            ELSE IF status = 0
            THEN Exit("threw") /\ upCalls' = transfer
            ELSE IF TransferFailed(status)
            THEN Exit("transferFailed") /\ upCalls' = transfer
            ELSE IF ~Delivered(cscript)
            THEN Exit("threw") /\ upCalls' = createCalls
            ELSE IF answer # "theme"
            THEN Exit(answer) /\ upCalls' = createCalls
            ELSE /\ upPc' = "polling"
                 /\ upCalls' = createCalls
                 /\ UNCHANGED <<upEnd, upResult, blobUrl, blobs>>
    /\ UNCHANGED <<upKind, pollI, pollQueries, pollThrew, themeRuns, notUploadVars>>

\* one iteration of the loop of waitForProcessing, and the rest of the POST
\* when the loop ends with it
ThemePoll ==
    /\ upKind \in {"theme", "themeStaged"} /\ upPc = "polling"
    /\ PollLoopCondition(pollI, ThemeMaxPolls)
    /\ pollI' = pollI + 1
    /\ pollQueries' = pollQueries + 1
    /\ \E outcome \in {"processing", "done", "threw"}, delOk, delAgainOk \in BOOLEAN :
         /\ pollThrew' = (pollThrew \/ outcome = "threw")
         /\ themeProcessing' = IF outcome = "done"
                                THEN [themeProcessing EXCEPT ![themeIdx] = FALSE]
                                ELSE themeProcessing
         /\ IF outcome = "done"
            THEN IF upKind = "theme"
                 THEN \* del(blobUrl) after success, then the finally block
                      /\ UploadExit("ready", ThemeExit("ready"),
                                    IF delOk THEN NoBlob ELSE blobUrl,
                                    Del(blobs, blobUrl, delOk), delAgainOk)
                      /\ upCalls' = Append(upCalls,
                                      Call("del", IF delOk THEN 200 ELSE 500))
                 ELSE /\ UploadExit("ready", ThemeExit("ready"), blobUrl, blobs,
                                    delAgainOk)
                      /\ UNCHANGED upCalls
            ELSE IF ~PollLoopCondition(pollI + 1, ThemeMaxPolls)
            THEN /\ UploadExit("timeout", ThemeExit("timeout"), blobUrl, blobs,
                               delAgainOk)
                 /\ UNCHANGED upCalls
            ELSE UNCHANGED <<upPc, upEnd, upResult, blobUrl, blobs, upCalls>>
    /\ UNCHANGED <<upKind, remoteThemes, themeRuns, themeIdx, notUploadVars>>

\* uploadAndResolveImage up to the first poll
ImageCreate ==
    /\ upKind = "image" /\ upPc = "idle"
    /\ \E script \in FaultScripts,
          answer \in {"userErrors", "noId", "readyAtOnce", "processing"} :
         /\ upCalls' = <<Call("fileCreate", 200)>>
         /\ IF ~Delivered(script)
            THEN UploadExit("threw", ImageExit("threw"), NoBlob, blobs, TRUE)
            ELSE IF answer # "processing"
            THEN UploadExit(answer, ImageExit(answer), NoBlob, blobs, TRUE)
            ELSE /\ upPc' = "polling"
                 /\ UNCHANGED <<upEnd, upResult, blobUrl, blobs>>
    /\ UNCHANGED <<upKind, pollI, pollQueries, pollThrew, remoteThemes, themeRuns,
                   themeProcessing, themeIdx, notUploadVars>>

\* one iteration of the polling loop of uploadAndResolveImage, and the
\* return after the loop when it was the last one
ImagePoll ==
    /\ upKind = "image" /\ upPc = "polling"
    /\ PollLoopCondition(pollI, ImageMaxPolls)
    /\ pollI' = pollI + 1
    /\ pollQueries' = pollQueries + 1
    /\ \E outcome \in {"PROCESSING", "READY", "READYNOURL", "FAILED", "threw"} :
         /\ pollThrew' = (pollThrew \/ outcome = "threw")
         /\ IF outcome = "READY"
            THEN UploadExit("ready", ImageExit("ready"), NoBlob, blobs, TRUE)
            ELSE IF outcome = "READYNOURL"
            THEN UploadExit("readyNoUrl", ImageExit("readyNoUrl"), NoBlob,
                            blobs, TRUE)
            ELSE IF outcome = "FAILED"
            THEN UploadExit("failed", ImageExit("failed"), NoBlob, blobs, TRUE)
            ELSE IF ~PollLoopCondition(pollI + 1, ImageMaxPolls)
            THEN UploadExit("timeout", ImageExit("timeout"), NoBlob, blobs, TRUE)
            ELSE UNCHANGED <<upPc, upEnd, upResult, blobUrl, blobs>>
    /\ UNCHANGED <<upKind, upCalls, remoteThemes, themeRuns, themeProcessing,
                   themeIdx, notUploadVars>>

\* uploadSingleImage
StagedUpload ==
    /\ upKind = "staged" /\ upPc = "idle"
    /\ \E script \in FaultScripts, staged \in {"target", "userErrors", "noTarget"},
          status \in TransferStatuses, fscript \in FaultScripts :
         LET stagedCall == <<Call("stagedUploadsCreate", 200)>>
             transfer == stagedCall \o <<Call("transfer", status)>>
             Exit(end) == UploadExit(end, StagedExit(end), NoBlob, blobs, TRUE)
         IN
         IF ~Delivered(script) THEN Exit("threw") /\ upCalls' = stagedCall
         ELSE IF staged = "userErrors"
         THEN Exit("stagedUserErrors") /\ upCalls' = stagedCall
         ELSE IF staged = "noTarget"
         THEN Exit("noTarget") /\ upCalls' = stagedCall
         ELSE IF status = 0 THEN Exit("threw") /\ upCalls' = transfer
         ELSE IF TransferFailed(status)
         THEN Exit("transferFailed") /\ upCalls' = transfer
         ELSE IF ~Delivered(fscript)
         THEN Exit("threw") /\ upCalls' = Append(transfer, Call("fileCreate", 500))
         ELSE Exit("created") /\ upCalls' = Append(transfer, Call("fileCreate", 200))
    /\ UNCHANGED <<upKind, pollI, pollQueries, pollThrew, remoteThemes, themeRuns,
                   themeProcessing, themeIdx, notUploadVars>>

UploadInit ==
    /\ RetryVarsInit
    /\ PipeVarsInit
    /\ ImpVarsIdle
    /\ entries = <<>>
    /\ ColVarsInit
    /\ StreamVarsIdle
    /\ upKind \in {"theme", "themeStaged", "image", "staged"}
    /\ UploadVarsInit
    /\ remoteThemes \in 0..1
    /\ themeProcessing = [i \in 1..remoteThemes |-> FALSE]
    /\ MoreVarsIdle

UploadNext ==
    \/ ThemePost
    \/ ThemeStagedPost
    \/ ThemePoll
    \/ ImageCreate
    \/ ImagePoll
    \/ StagedUpload

SpecUpload == UploadInit /\ [][UploadNext]_vars

\* the theme step is requested again after an execution ended (a resume of
\* the failed step, or a new full run): a new POST with its own locals
ThemeAgain ==
    /\ upKind = "theme" /\ upPc = "done"
    /\ themeRuns < MaxThemeRuns
    /\ themeRuns' = themeRuns + 1
    /\ upPc' = "idle"
    /\ pollI' = 0
    /\ pollQueries' = 0
    /\ pollThrew' = FALSE
    /\ upEnd' = "none"
    /\ upResult' = Null
    /\ blobUrl' = NoBlob
    /\ upCalls' = <<>>
    /\ themeIdx' = 0
    /\ UNCHANGED <<upKind, blobs, remoteThemes, themeProcessing, notUploadVars>>

ThemeRerunInit == UploadInit /\ upKind = "theme"

ThemeRerunNext == ThemePost \/ ThemePoll \/ ThemeAgain

\* the theme step executed repeatedly for the same shop
SpecThemeRerun == ThemeRerunInit /\ [][ThemeRerunNext]_vars

\* every request gets its answer: an operation under way takes its next step
FairSpecUpload == SpecUpload /\ WF_vars(UploadNext)

\* ------------------------------------------------------------------------
\* Properties of the uploads and their polling (checked under SpecUpload)
\* ------------------------------------------------------------------------
IsTheme == upKind \in {"theme", "themeStaged"}

\* C17: when polling exhausts its attempts, the outcome reported differs
\* from the one reported for a remote status FAILED and from the ones
\* reported for the other failures of the operation.
C17_TimeoutDistinguishable ==
    (upPc = "done" /\ upEnd = "timeout") =>
        /\ upKind = "image" =>
             upResult \notin {ImageExit("failed"), ImageExit("threw"),
                              ImageExit("userErrors"), ImageExit("noId")}
        /\ IsTheme =>
             upResult \notin {ThemeExit("threw"), ThemeExit("userErrors"),
                              ThemeExit("noId")}

\* C18: once the theme upload step has returned, by whatever exit path, no
\* temporary blob exists in blob storage.
C18_BlobRemovedOnEveryExit ==
    (upKind = "theme" /\ upPc = "done") => blobs = {}

\* C19: a transfer is followed by the registration of the resource exactly
\* when the storage endpoint answered 200 or 201.
C19_TransferOkIff200Or201 ==
    (upKind \in {"themeStaged", "staged"} /\ upPc \in {"polling", "done"}) =>
        \A i \in 1..Len(upCalls) :
            upCalls[i].op = "transfer" =>
                (upCalls[i].status \in {200, 201} <=> i < Len(upCalls))

MaxPolls == IF IsTheme THEN ThemeMaxPolls ELSE ImageMaxPolls

\* C20: a polling loop issues one status query per iteration, a throwing
\* query included, and at most MAX_POLLS of them; it ends at the first
\* terminal answer or after the last attempt, issues no query afterwards,
\* and the operation always ends.
C20_PollingBoundedAndEnds ==
    /\ [](/\ pollQueries = pollI
          /\ pollQueries <= MaxPolls
          /\ (upPc = "done" /\ upEnd = "timeout") => pollQueries = MaxPolls
          /\ (upPc = "polling") => upEnd = "none")
    /\ [][upPc = "done" => pollQueries' = pollQueries]_vars
    /\ <>(upPc = "done")

C20_Witness ==
    /\ upPc = "done"
    /\ upEnd = "timeout"
    /\ pollThrew
    /\ pollQueries = ImageMaxPolls \/ pollQueries = ThemeMaxPolls

\* ------------------------------------------------------------------------
\* Properties of runStreamingStep (checked under SpecStream)
\* ------------------------------------------------------------------------
\* a well-formed complete record is one of the lines of the text, the last
\* one with or without its line feed
CompleteReceived(text) ==
    \E i \in 1..Len(Split(text, <<>>)) :
        LET r == JSONParse(Split(text, <<>>)[i]) IN
        r.ok /\ EventType(r.value) = "complete"

ProgressReceived(text) ==
    \E i \in 1..Len(Split(text, <<>>)) :
        LET r == JSONParse(Split(text, <<>>)[i]) IN
        r.ok /\ EventType(r.value) = "progress"

\* C11 as stated: whenever the stream ended or was cut without a
\* well-formed complete record received, runStreamingStep has returned the
\* synthesized "No final event received" failure.
C11_AlwaysReturnsSynthesizedFailure ==
    (rsMode = "stream" /\ rsPc \in {"returned", "threw", "recorded"}
     /\ ~CompleteReceived(rsReceived)) =>
        rsResult = NoFinalEvent

\* C11: when the body of the import response ends without a well-formed
\* complete record in the text received, runStreamingStep returns the
\* synthesized "No final event received" failure; when reading the body
\* fails instead, runStreamingStep throws and returns nothing.  Either way
\* the orchestrator records step 2 as failed and not as completed, progress
\* records or not.
C11_NoCompleteRecordIsFailure ==
    /\ (rsMode = "stream" /\ rsPc \in {"returned", "recorded"}
        /\ rsEnding = "done" /\ ~CompleteReceived(rsReceived)) =>
           rsResult = NoFinalEvent
    /\ (rsMode = "stream" /\ rsPc \in {"threw", "recorded"}
        /\ rsEnding = "reject") =>
           rsResult = Null
    /\ (rsPc = "recorded" /\ ~CompleteReceived(rsReceived)) =>
           /\ 2 \in DOMAIN stepErrors
           /\ ~SeqIncludes(completedSteps, 2)
           /\ ~running

C11_Witness ==
    /\ rsPc = "recorded"
    /\ ProgressReceived(rsReceived)
    /\ ~CompleteReceived(rsReceived)
    /\ buffer # <<>>
    /\ rsResult = NoFinalEvent
    /\ 2 \in DOMAIN stepErrors

\* ------------------------------------------------------------------------
\* Properties of graphqlWithRetry (checked under SpecRetry)
\* ------------------------------------------------------------------------
ThrottlingErrorLists ==
    { <<ErrThrottledCode>>, <<ErrThrottledMsg>>, <<ErrBusiness, ErrThrottledCode>> }
BusinessErrorLists == { <<>>, <<ErrBusiness>>, <<ErrBusinessCode>> }

ThrottlingResponse(r) ==
    r.status = 200 /\ r.hasErrors /\ r.errors \in ThrottlingErrorLists
BusinessResponse(r) ==
    r.status = 200 /\ r.hasErrors /\ r.errors \in BusinessErrorLists
TransportFailure(r) == r.status \notin 200..299

AllThrottled == \A i \in 1..Len(requests) : ThrottlingResponse(requests[i])

\* C1: with maxRetries >= 1 a call never issues more than maxRetries requests;
\* when every response is a throttling error it issues exactly maxRetries
\* requests and then fails.
C1_ThrottledRequestBound ==
    maxRetries >= 1 =>
        /\ Len(requests) <= maxRetries
        /\ (AllThrottled /\ gqlState # "running") =>
               (Len(requests) = maxRetries /\ gqlState = "threw")

C1_Witness ==
    /\ maxRetries = 3
    /\ Len(requests) = 3
    /\ AllThrottled
    /\ gqlState = "threw"

\* C2: the wait before the k-th re-attempt is 2^(k-1) seconds: it follows the
\* throttled attempt numbered k-1, and no wait follows the final attempt.
C2_ExponentialBackoff ==
    /\ \A k \in 1..Len(delays) :
         /\ delays[k].after = k - 1
         /\ delays[k].ms = (2 ^ (k - 1)) * 1000
         /\ k <= Len(requests)
         /\ ThrottlingResponse(requests[k])
    /\ \A k \in 1..Len(delays) : delays[k].after < maxRetries - 1
    /\ (gqlState # "running" /\ requests # <<>>) =>
           Len(delays) = Len(requests) - 1
    /\ gqlState = "running" => Len(delays) = Len(requests)

C2_Witness ==
    /\ gqlState = "threw"
    /\ Len(requests) = 4
    /\ AllThrottled
    /\ Len(delays) = 3
    /\ delays[3].ms = 4000

\* C3: a business error in a 200 response is never retried: a call whose first
\* response is a business error issues exactly one request and fails with that
\* error, whatever maxRetries is; a business error is always the last response.
C3_BusinessErrorNotRetried ==
    /\ \A i \in 1..Len(requests) :
         BusinessResponse(requests[i]) =>
             /\ i = Len(requests)
             /\ gqlState = "threw"
             /\ gqlError.type = "ShopifyGraphQLError"
             /\ gqlError.errors = requests[i].errors
    /\ (requests # <<>> /\ BusinessResponse(requests[1])) => Len(requests) = 1

C3_Witness ==
    /\ maxRetries = MaxRetriesBound
    /\ requests = <<[status |-> 200, hasErrors |-> TRUE, errors |-> <<ErrBusiness>>]>>
    /\ gqlState = "threw"

\* C4: when every attempt was throttled and the attempts are exhausted, the
\* error of the call is the error of the final attempt.
C4_FailsWithLastError ==
    (/\ gqlState = "threw"
     /\ requests # <<>>
     /\ AllThrottled) =>
        /\ gqlError.type = "ShopifyGraphQLError"
        /\ gqlError.attempt = maxRetries - 1
        /\ gqlError.errors = requests[Len(requests)].errors

C4_Witness ==
    /\ gqlState = "threw"
    /\ maxRetries = 3
    /\ Len(requests) = 3
    /\ AllThrottled
    /\ requests[1].errors # requests[3].errors
    /\ requests[2].errors # requests[3].errors

\* C5: a non-2xx response is never retried: it is the last response of the
\* call, the call fails with the transport error of that response, and a call
\* whose first response is non-2xx issues exactly one request.
C5_TransportFailureNotRetried ==
    /\ \A i \in 1..Len(requests) :
         TransportFailure(requests[i]) =>
             /\ i = Len(requests)
             /\ gqlState = "threw"
             /\ gqlError.type = "Error"
             /\ gqlError.status = requests[i].status
    /\ (requests # <<>> /\ TransportFailure(requests[1])) =>
           (Len(requests) = 1 /\ delays = <<>>)

C5_Witness ==
    /\ maxRetries = MaxRetriesBound
    /\ requests = <<[status |-> 429, hasErrors |-> FALSE, errors |-> <<>>]>>
    /\ gqlState = "threw"
    /\ gqlError.type = "Error"

\* ------------------------------------------------------------------------
\* Properties of the orchestrator (checked under SpecPipeline)
\* ------------------------------------------------------------------------
\* the PipelineData fields each step owns
OwnedFields(id) ==
    CASE id = 1 -> {"totalProducts"}
      [] id = 2 -> {"productIds"}
      [] id = 3 -> {"collections", "bestSellersId"}
      [] id = 4 -> {"themeId"}
      [] id = 5 -> {"logoUrl", "faviconUrl", "bannerDesktopUrl",
                    "bannerMobileUrl", "collectionImages"}
      [] OTHER -> {}

FieldsBefore(k) == {"csvText"} \cup UNION {OwnedFields(j) : j \in 1..(k - 1)}

\* C7: a full run invokes the steps in the order of STEPS, each at most once;
\* a failed step is the last one invoked, the failure is recorded against its
\* id (and against no other), and the run has stopped.
C7_FullRunHaltsAtFirstFailure ==
    lastHandler = "start" =>
        /\ Len(invoked) <= Len(STEPS)
        /\ \A i \in 1..Len(invoked) : invoked[i] = STEPS[i].id
        /\ \A i \in 1..Len(outcomes) :
             outcomes[i] = "failed" =>
                 /\ i = Len(invoked)
                 /\ DOMAIN stepErrors = {STEPS[i].id}
                 /\ handler = "none"
                 /\ ~running
                 /\ ~done

C7_Witness ==
    /\ lastHandler = "start"
    /\ outcomes = <<"ok", "ok", "ok", "failed">>
    /\ invoked = <<1, 2, 3, 4>>
    /\ DOMAIN stepErrors = {4}

\* C8: a resume after a failure at step k invokes k, k+1, ... in order and
\* none of the steps 1..k-1, and the fields owned by the steps 1..k-1 (and
\* csvText) keep the values they had when the resume began.
C8_ResumeKeepsEarlierState ==
    lastHandler = "retry" =>
        /\ resumeK \in 1..Len(STEPS)
        /\ \A i \in 1..Len(invoked) : invoked[i] = resumeK + i - 1
        /\ \A f \in FieldsBefore(resumeK) : pipe[f] = resumePipe[f]

C8_Witness ==
    /\ lastHandler = "retry"
    /\ resumeK = 4
    /\ handler = "none"
    /\ done
    /\ invoked = <<4, 5, 6, 7, 8>>
    /\ pipe.productIds # <<>>
    /\ pipe.themeId # resumePipe.themeId

\* ------------------------------------------------------------------------
\* Properties of the product import stream (checked under SpecImport)
\* ------------------------------------------------------------------------
Total == Len(entries)

VariantFailure(call) ==
    /\ call.op = "productVariantsBulkCreate"
    /\ call.outcome \in {"userErrors", "threw"}

CreateFailure(call) ==
    /\ call.op = "productCreate"
    /\ call.outcome \in {"userErrors", "nullProduct", "threw"}

\* C9: the stream of the import holds progress records with processed =
\* 1, 2, ... in that order, one per item processed so far; once closed it
\* holds exactly Total of them followed by exactly one complete record.
C9_ProgressThenComplete ==
    /\ impPc = "loop" =>
         /\ Len(stream) = impIdx - 1
         /\ \A i \in 1..Len(stream) :
              stream[i] = [type |-> "progress", processed |-> i, total |-> Total]
    /\ impPc = "closed" =>
         /\ Len(stream) = Total + 1
         /\ \A i \in 1..Total :
              stream[i] = [type |-> "progress", processed |-> i, total |-> Total]
         /\ stream[Total + 1].type = "complete"

C9_Witness ==
    /\ impPc = "closed"
    /\ Total = 2
    /\ \E i \in 1..Len(callLog) : CreateFailure(callLog[i])
    /\ \E i \in 1..Len(callLog) : VariantFailure(callLog[i])
    /\ stream[3].type = "complete"

\* C10: when the import ends, the last progress record has processed = Total
\* and the complete record has imported + failed <= total; a product whose
\* variant creation failed is in productIds and has no entry in errors.
C10_CompleteCounts ==
    /\ (impPc = "json" /\ impStatus = 200) =>
         stream[1].imported + stream[1].failed <= Total
    /\ impPc = "closed" =>
         LET c == stream[Len(stream)] IN
         /\ Total > 0 => stream[Len(stream) - 1].processed = Total
         /\ c.total = Total
         /\ c.imported = Len(c.productIds)
         /\ c.failed = Len(c.errors)
         /\ c.imported + c.failed <= Total
         /\ \A i \in 1..Len(callLog) :
              VariantFailure(callLog[i]) =>
                  /\ \E j \in 1..Len(remoteProducts) :
                       /\ remoteProducts[j].handle = callLog[i].handle
                       /\ SeqIncludes(c.productIds, remoteProducts[j].id)
                  /\ \A k \in 1..Len(c.errors) :
                       c.errors[k].handle # callLog[i].handle

C10_Witness ==
    /\ impPc = "closed"
    /\ Total = 2
    /\ \E i \in 1..Len(callLog) : VariantFailure(callLog[i])
    /\ stream[3].imported = 1
    /\ stream[3].failed = 1

CreateCalls == SelectSeq(callLog, LAMBDA c : c.op = "productCreate")

\* C12: once the import stream is closed, a productCreate request has been
\* issued for every catalog entry, in catalog order, whatever the outcome
\* of the earlier items; while the loop runs, one for every entry passed.
C12_EveryEntryAttempted ==
    /\ impPc \in {"loop", "closed"} =>
         /\ Len(CreateCalls) = impIdx - 1
         /\ \A i \in 1..Len(CreateCalls) :
              CreateCalls[i].handle = entries[i].handle
    /\ impPc = "closed" => Len(CreateCalls) = Total

C12_Witness ==
    /\ impPc = "closed"
    /\ Total = 2
    /\ Len(CreateCalls) = 2
    /\ CreateCalls[1].outcome = "threw"
    /\ CreateCalls[2].outcome \in {"userErrors", "nullProduct"}

\* no row of the product carries a price
NoPrice(rows) == \A i \in 1..Len(rows) : Trim(rows[i]) = ""

MissingPrice == { i \in 1..Total : NoPrice(entries[i].rows) }

\* every request about the priced products was executed without error
PricedProductsValid ==
    \A i \in 1..Len(callLog) :
        (callLog[i].op # "locations"
         /\ \E j \in (1..Total) \ MissingPrice :
               entries[j].handle = callLog[i].handle) =>
            callLog[i].outcome \in {"product", "variants"}

\* C13: for a catalog whose products are all valid but one without a price
\* on any row, the complete record has imported = number of valid products,
\* failed = 1 and one error, keyed by the handle of that product.
C13_MissingPriceReportedFailed ==
    (impPc = "closed" /\ Cardinality(MissingPrice) = 1 /\ PricedProductsValid) =>
        LET c == stream[Len(stream)]
            i == CHOOSE i \in MissingPrice : TRUE
        IN /\ c.imported = Total - 1
           /\ c.failed = 1
           /\ Len(c.errors) = 1
           /\ c.errors[1].handle = entries[i].handle

CreateFailures == SelectSeq(callLog, CreateFailure)

\* C14: the complete record of the stream has success = TRUE exactly when
\* imported >= 1, whatever the number of failed items, and errors holds one
\* entry, with handle and reason, for every item whose creation failed.
C14_SuccessIffOneImported ==
    impPc = "closed" =>
        LET c == stream[Len(stream)] IN
        /\ c.success = (c.imported >= 1)
        /\ Len(c.errors) = Len(CreateFailures)
        /\ \A i \in 1..Len(CreateFailures) :
             c.errors[i] = [handle |-> CreateFailures[i].handle,
                            reason |-> CreateFailures[i].outcome]

C14_Witness ==
    /\ impPc = "closed"
    /\ stream[Len(stream)].success
    /\ stream[Len(stream)].imported = 1
    /\ stream[Len(stream)].failed = 1

IsPrefix(q, r) == Len(q) <= Len(r) /\ SubSeq(r, 1, Len(q)) = q

\* C15: a productVariantsBulkCreate request directly follows the
\* productCreate of the same entry that returned a product; productIds and
\* the products of the store only grow, and only create requests are issued.
C15_VariantsAfterParentNoRetract ==
    /\ [](\A i \in 1..Len(callLog) :
            /\ callLog[i].op \in {"locations", "productCreate",
                                  "productVariantsBulkCreate"}
            /\ callLog[i].op = "productVariantsBulkCreate" =>
                 /\ i > 1
                 /\ callLog[i - 1] = [op |-> "productCreate",
                                      handle |-> callLog[i].handle,
                                      outcome |-> "product"])
    /\ [][/\ IsPrefix(productIds, productIds')
          /\ IsPrefix(remoteProducts, remoteProducts')
          /\ (Len(callLog') > Len(callLog)
              /\ VariantFailure(callLog'[Len(callLog')])) =>
                 /\ Len(productIds') = Len(productIds) + 1
                 /\ Len(remoteProducts') = Len(remoteProducts) + 1]_vars

C15_Witness ==
    /\ impPc = "closed"
    /\ Len(productIds) = 2
    /\ \E i \in 1..Len(callLog) :
         VariantFailure(callLog[i]) /\ callLog[i].outcome = "threw"
    /\ \E i \in 1..Len(callLog) :
         VariantFailure(callLog[i]) /\ callLog[i].outcome = "userErrors"

\* C16: a variant failure of a created product is reflected in the complete
\* record: an entry of errors carries the handle of that product.
C16_VariantFailureCounted ==
    impPc = "closed" =>
        \A i \in 1..Len(callLog) :
            VariantFailure(callLog[i]) =>
                LET c == stream[Len(stream)] IN
                \E k \in 1..Len(c.errors) :
                    c.errors[k].handle = callLog[i].handle

\* ------------------------------------------------------------------------
\* Properties of findOrCreateCollection (checked under SpecCollections)
\* ------------------------------------------------------------------------
CollectionsWithHandle(handle) ==
    {i \in 1..Len(remoteCollections) : remoteCollections[i].handle = handle}

\* C6 as stated: a findOrCreateCollection call that follows a call with the
\* same handle returns the identifier that call returned, and the remote
\* store holds exactly one collection with that handle.
C6_SecondCallReturnsSameId ==
    lastFoc.prior # 0 =>
        /\ lastFoc.result = lastFoc.prior
        /\ Cardinality(CollectionsWithHandle(lastFoc.handle)) = 1

\* C6 as amended: a findOrCreateCollection call that follows a call with the
\* same handle never creates a collection and never returns another
\* identifier: it returns the identifier that call returned, or null when its
\* own lookup by handle fails; the remote store holds exactly one collection
\* with a handle for which an identifier was returned, the one returned.
C6_NoDuplicateCollection ==
    /\ lastFoc.prior # 0 =>
         /\ ~lastFoc.created
         /\ lastFoc.result \in {lastFoc.prior, 0}
         /\ lastFoc.result = 0 => lastFoc.lookupThrew
    /\ \A h \in DOMAIN returnedIds :
         /\ Cardinality(CollectionsWithHandle(h)) = 1
         /\ \A i \in CollectionsWithHandle(h) :
              remoteCollections[i].id = returnedIds[h]

C6_Witness ==
    /\ colRuns = 2
    /\ colPc = "done"
    /\ lastFoc.handle = BestSellersHandle
    /\ lastFoc.prior # 0
    /\ lastFoc.result = lastFoc.prior
    /\ lastFoc.looked
    /\ Cardinality(CollectionsWithHandle(BestSellersHandle)) = 1

\* C21: a create whose user error says "taken" or "already", in any case,
\* is followed by a lookup by handle whose finding is returned, and by a
\* failure when the lookup finds nothing; a create with other user errors
\* fails without a lookup; a create that returned the collection is
\* followed by no lookup.
C21_CreateThenLookupOnConflict ==
    /\ lastFoc.createMsg \in {MsgHandleTaken, MsgAlreadyExists} =>
         /\ lastFoc.looked /\ ~lastFoc.created
         /\ (CollectionsWithHandle(lastFoc.handle) # {} /\ ~lastFoc.lookupThrew) =>
              \E i \in CollectionsWithHandle(lastFoc.handle) :
                  lastFoc.result = remoteCollections[i].id
         /\ CollectionsWithHandle(lastFoc.handle) = {} => lastFoc.result = 0
    /\ lastFoc.createMsg = MsgTitleBlank =>
         ~lastFoc.looked /\ ~lastFoc.created /\ lastFoc.result = 0
    /\ lastFoc.created => ~lastFoc.looked /\ lastFoc.result # 0

C21_Witness ==
    /\ lastFoc.createMsg = MsgHandleTaken
    /\ lastFoc.looked
    /\ CollectionsWithHandle(lastFoc.handle) = {}
    /\ lastFoc.result = 0
    /\ colPc = "done"

ReasonNotFound == "create failed, none found"
ReasonBestSellers == "create/find failed"

ErrorsWithReason(errs, reason) == { k \in 1..Len(errs) : errs[k].reason = reason }

\* C25: the response of the collections step is made of the outcomes of
\* findOrCreateCollection and of the product batches only: every requested
\* name is in collections or has one "not found" error, bestSellersId is
\* set unless Best Sellers has its error, and no error names a publish,
\* whether the publish succeeded, failed, or had no publication id.
C25_PublishFailureSwallowed ==
    (colPc = "done" /\ colResponse.status = 200) =>
        LET c == colResponse IN
        /\ Len(c.collections) + Cardinality(ErrorsWithReason(c.errors, ReasonNotFound))
             = Len(colRequest.collections)
        /\ \A i \in 1..Len(c.collections) :
             \E j \in 1..Len(remoteCollections) :
                 remoteCollections[j].id = c.collections[i].id
        /\ (c.bestSellersId = 0) <=>
               (ErrorsWithReason(c.errors, ReasonBestSellers) # {})
        /\ \A k \in 1..Len(c.errors) :
             c.errors[k].reason \in {ReasonNotFound, ReasonBestSellers, "threw"}
        /\ c.success = (Len(c.collections) > 0 \/ c.bestSellersId # 0)

C25_Witness ==
    /\ colPc = "done" /\ colResponse.status = 200
    /\ publicationId # ""
    /\ Len(colResponse.collections) = 1
    /\ colResponse.collections[1].id \notin published
    /\ colResponse.bestSellersId # 0
    /\ colResponse.bestSellersId \notin published
    /\ colResponse.errors = <<>>
    /\ colResponse.success

\* C26: when a requested collection, or Best Sellers, could be neither
\* created nor found, the step answers success = FALSE.
C26_PrimaryFailureIsFatal ==
    (colPc = "done" /\ colResponse.status = 200
     /\ (ErrorsWithReason(colResponse.errors, ReasonNotFound) # {}
         \/ ErrorsWithReason(colResponse.errors, ReasonBestSellers) # {})) =>
        ~colResponse.success

\* C22: however often the import step is executed, the store holds at most
\* one product created for a catalog handle.
C22_NoDuplicateProduct ==
    \A i, j \in 1..Len(remoteProducts) :
        remoteProducts[i].handle = remoteProducts[j].handle => i = j

\* C23: the shop never holds more than one theme with the step's name, and
\* an execution that finds such a theme answers with its id, having stored
\* no blob and issued no request.
C23_AtMostOneNamedTheme ==
    /\ remoteThemes <= 1
    /\ (upKind = "theme" /\ upEnd = "existing") =>
          /\ upResult = ThemeExit("existing")
          /\ upCalls = <<>>
          /\ blobUrl = NoBlob

\* ------------------------------------------------------------------------
\* Specification of upsertFileWithRetry (step7-configure)
\* ------------------------------------------------------------------------
\* what one client.graphqlWithRetry(THEME_FILES_UPSERT) call ends with: the
\* answer without user errors, user errors (their messages joined), or an
\* exception (err.message, or "Erro" when it is not an Error)
UpsertAnswers ==
    { [kind |-> "ok", msg |-> ""],
      [kind |-> "userErrors", msg |-> "m1"],
      [kind |-> "userErrors", msg |-> "m1; m2"],
      [kind |-> "threw", msg |-> "HTTP 500"],
      [kind |-> "threw", msg |-> "Erro"] }

\* faulty variant of upsertBackoffMs: the same wait after every attempt
upsertBackoffMs_Constant(n) == 2000

\* setTimeout(r, 2000 * attempt)
upsertBackoffMs(n) == 2000 * n

UpsertOk == [ok |-> TRUE]
UpsertFailed(msg) == [ok |-> FALSE, error |-> msg]

\* one iteration of the for loop: the call, and the return or the wait
UpsertAttempt ==
    /\ usPc = "loop"
    /\ usAttempt <= usMax
    /\ \E answer \in UpsertAnswers :
         /\ usLog' = Append(usLog, answer)
         /\ IF answer.kind = "ok"
            THEN /\ usResult' = UpsertOk
                 /\ usPc' = "done"
                 /\ UNCHANGED <<usAttempt, usWaits>>
            ELSE IF usAttempt = usMax
            THEN /\ usResult' = UpsertFailed(answer.msg)
                 /\ usPc' = "done"
                 /\ UNCHANGED <<usAttempt, usWaits>>
            ELSE /\ usWaits' = Append(usWaits, upsertBackoffMs(usAttempt))
                 /\ usAttempt' = usAttempt + 1
                 /\ UNCHANGED <<usPc, usResult>>
    /\ UNCHANGED <<usMax, awaitVars, retryVars, pipeVars, impVars, colVars,
                   streamVars, uploadVars, lastVars>>

\* the loop condition fails: the return after the loop
UpsertLoopExit ==
    /\ usPc = "loop"
    /\ ~(usAttempt <= usMax)
    /\ usResult' = UpsertFailed("Max attempts reached")
    /\ usPc' = "done"
    /\ UNCHANGED <<usMax, usAttempt, usLog, usWaits, awaitVars, retryVars,
                   pipeVars, impVars, colVars, streamVars, uploadVars, lastVars>>

UpsertInit ==
    /\ RetryVarsInit
    /\ PipeVarsInit
    /\ ImpVarsIdle
    /\ entries = <<>>
    /\ ColVarsInit
    /\ StreamVarsIdle
    /\ upKind = "theme"
    /\ UploadVarsInit
    /\ remoteThemes = 0
    /\ themeProcessing = <<>>
    /\ AwaitVarsInit
    /\ LastVarsIdle
    /\ usMax \in 0..MaxAttemptsBound
    /\ usAttempt = 1
    /\ usPc = "loop"
    /\ usLog = <<>>
    /\ usWaits = <<>>
    /\ usResult = Null

UpsertNext == UpsertAttempt \/ UpsertLoopExit

SpecUpsert == UpsertInit /\ [][UpsertNext]_vars

\* C24: upsertFileWithRetry issues at most maxAttempts calls; it returns ok
\* at the first call answered without user errors; the wait after the n-th
\* failed attempt is 2000*n ms and exists only when another attempt follows;
\* after the last failed attempt it returns not-ok with that attempt's error.
C24_BoundedAttemptsLinearBackoff ==
    /\ Len(usLog) <= usMax
    /\ \A n \in 1..Len(usWaits) : usWaits[n] = 2000 * n
    /\ \A i \in 1..(Len(usLog) - 1) : usLog[i].kind # "ok"
    /\ usPc = "loop" =>
          /\ usResult = Null
          /\ Len(usWaits) = Len(usLog)
          /\ usAttempt = Len(usLog) + 1
          /\ \A i \in 1..Len(usLog) : usLog[i].kind # "ok"
    /\ (usPc = "done" /\ usLog # <<>>) =>
          /\ Len(usWaits) = Len(usLog) - 1
          /\ IF usLog[Len(usLog)].kind = "ok"
             THEN usResult = UpsertOk
             ELSE /\ Len(usLog) = usMax
                  /\ usResult = UpsertFailed(usLog[Len(usLog)].msg)

C24_Witness ==
    /\ usPc = "done" /\ usMax = 3 /\ Len(usLog) = 3
    /\ usWaits = <<2000, 4000>>
    /\ usLog[3].kind = "threw"
    /\ usResult = UpsertFailed("HTTP 500")

\* ------------------------------------------------------------------------
\* Specification of the await points: the step loops of handleStart and
\* handleRetry, and the item loop of the product import
\* ------------------------------------------------------------------------
RECURSIVE RemoveOne(_, _)
RemoveOne(q, x) ==
    IF q = <<>> THEN <<>>
    ELSE IF Head(q) = x THEN Tail(q)
    ELSE <<Head(q)>> \o RemoveOne(Tail(q), x)

\* faulty variant of CanActivate: the buttons stay enabled during a run
CanActivate_Always(isRunning) == TRUE

\* the submit button is disabled and the retry button is not rendered
\* while running
CanActivate(isRunning) == ~isRunning

\* handleStart up to the step loop
AwStart ==
    /\ CanActivate(awRunning)
    /\ awActivations < MaxActivations
    /\ awActivations' = awActivations + 1
    /\ awRunning' = TRUE
    /\ awFailed' = 0
    /\ awPc' = "loop"
    /\ \E readOk \in BOOLEAN :
         IF readOk
         THEN awHandler' = "start" /\ awIdx' = 1
         ELSE awHandler' = "none" /\ UNCHANGED awIdx
    /\ UNCHANGED <<stepsInFlight, srvPc, srvIdx, srvTotal, callsInFlight,
                   upsertVars, retryVars, pipeVars, impVars, colVars, streamVars,
                   uploadVars, lastVars>>

\* handleRetry up to the step loop
AwRetry ==
    /\ CanActivate(awRunning)
    /\ awFailed # 0
    /\ awActivations < MaxActivations
    /\ awActivations' = awActivations + 1
    /\ awRunning' = TRUE
    /\ awHandler' = "retry"
    /\ awIdx' = RetryStartIdx(awFailed)
    /\ awFailed' = 0
    /\ awPc' = "loop"
    /\ UNCHANGED <<stepsInFlight, srvPc, srvIdx, srvTotal, callsInFlight,
                   upsertVars, retryVars, pipeVars, impVars, colVars, streamVars,
                   uploadVars, lastVars>>

\* runStep up to `await fetch(...)`: the request of the step is issued; the
\* request of the streaming step starts the import POST, whose first call
\* is fetchLocationId, unless it is answered before (no session, bad body)
AwFetch ==
    /\ awHandler # "none"
    /\ awPc = "loop"
    /\ awPc' = "fetch"
    /\ stepsInFlight' = Append(stepsInFlight, STEPS[awIdx].id)
    /\ \E served \in BOOLEAN, total \in 0..MaxProducts :
         IF STEPS[awIdx].streaming /\ served
         THEN /\ srvPc' = "locations"
              /\ srvIdx' = 1
              /\ srvTotal' = total
              /\ callsInFlight' = Append(callsInFlight, "locations")
         ELSE UNCHANGED <<srvPc, srvIdx, srvTotal, callsInFlight>>
    /\ UNCHANGED <<awHandler, awIdx, awRunning, awFailed, awActivations,
                   upsertVars, retryVars, pipeVars, impVars, colVars, streamVars,
                   uploadVars, lastVars>>

\* fetchLocationId returns or throws
SrvLocationsReturn ==
    /\ srvPc = "locations"
    /\ callsInFlight' = RemoveOne(callsInFlight, "locations")
    /\ \E ok \in BOOLEAN : srvPc' = IF ok THEN "loop" ELSE "idle"
    /\ UNCHANGED <<awHandler, awIdx, awPc, awRunning, awFailed, awActivations,
                   stepsInFlight, srvIdx, srvTotal, upsertVars, retryVars,
                   pipeVars, impVars, colVars, streamVars, uploadVars, lastVars>>

\* the item loop up to `await client.graphqlWithRetry(CREATE_PRODUCT, ...)`
SrvCreate ==
    /\ srvPc = "loop"
    /\ srvIdx <= srvTotal
    /\ srvPc' = "create"
    /\ callsInFlight' = Append(callsInFlight, "productCreate")
    /\ UNCHANGED <<awHandler, awIdx, awPc, awRunning, awFailed, awActivations,
                   stepsInFlight, srvIdx, srvTotal, upsertVars, retryVars,
                   pipeVars, impVars, colVars, streamVars, uploadVars, lastVars>>

\* productCreate returned: the item ends (failure, or no variants to
\* create), or the variants call is issued
SrvCreateReturn ==
    /\ srvPc = "create"
    /\ \E next \in {"failed", "noVariants", "variants"} :
         IF next = "variants"
         THEN /\ callsInFlight' = Append(RemoveOne(callsInFlight, "productCreate"),
                                         "productVariantsBulkCreate")
              /\ srvPc' = "variants"
              /\ UNCHANGED srvIdx
         ELSE /\ callsInFlight' = RemoveOne(callsInFlight, "productCreate")
              /\ srvPc' = "loop"
              /\ srvIdx' = srvIdx + 1
    /\ UNCHANGED <<awHandler, awIdx, awPc, awRunning, awFailed, awActivations,
                   stepsInFlight, srvTotal, upsertVars, retryVars, pipeVars,
                   impVars, colVars, streamVars, uploadVars, lastVars>>

\* productVariantsBulkCreate returned or threw: the item ends
SrvVariantsReturn ==
    /\ srvPc = "variants"
    /\ callsInFlight' = RemoveOne(callsInFlight, "productVariantsBulkCreate")
    /\ srvPc' = "loop"
    /\ srvIdx' = srvIdx + 1
    /\ UNCHANGED <<awHandler, awIdx, awPc, awRunning, awFailed, awActivations,
                   stepsInFlight, srvTotal, upsertVars, retryVars, pipeVars,
                   impVars, colVars, streamVars, uploadVars, lastVars>>

\* after the item loop: the complete record is written, the stream closed
SrvClose ==
    /\ srvPc = "loop"
    /\ ~(srvIdx <= srvTotal)
    /\ srvPc' = "idle"
    /\ UNCHANGED <<awHandler, awIdx, awPc, awRunning, awFailed, awActivations,
                   stepsInFlight, srvIdx, srvTotal, callsInFlight, upsertVars,
                   retryVars, pipeVars, impVars, colVars, streamVars, uploadVars, lastVars>>

\* the awaited request settles (for the streaming step: the body has been
\* read to its end), and the rest of the loop iteration
AwSettle ==
    /\ awHandler # "none"
    /\ awPc = "fetch"
    /\ srvPc = "idle"
    /\ awPc' = "loop"
    /\ stepsInFlight' = RemoveOne(stepsInFlight, STEPS[awIdx].id)
    /\ \E ok \in BOOLEAN :
         IF ~ok
         THEN /\ awFailed' = awIdx
              /\ awRunning' = FALSE
              /\ awHandler' = CatchReturn(awHandler, awIdx).handler
              /\ awIdx' = CatchReturn(awHandler, awIdx).loopIdx
         ELSE IF awIdx = Len(STEPS)
         THEN /\ awRunning' = FALSE
              /\ awHandler' = "none"
              /\ UNCHANGED <<awIdx, awFailed>>
         ELSE /\ awIdx' = awIdx + 1
              /\ UNCHANGED <<awHandler, awRunning, awFailed>>
    /\ UNCHANGED <<awActivations, srvPc, srvIdx, srvTotal, callsInFlight,
                   upsertVars, retryVars, pipeVars, impVars, colVars, streamVars,
                   uploadVars, lastVars>>

AwaitInit ==
    /\ RetryVarsInit
    /\ PipeVarsInit
    /\ ImpVarsIdle
    /\ entries = <<>>
    /\ ColVarsInit
    /\ ExtVarsIdle

AwaitNext ==
    \/ AwStart
    \/ AwRetry
    \/ AwFetch
    \/ SrvLocationsReturn
    \/ SrvCreate
    \/ SrvCreateReturn
    \/ SrvVariantsReturn
    \/ SrvClose
    \/ AwSettle

SpecAwait == AwaitInit /\ [][AwaitNext]_vars

RequestFields_Forward(id) ==
    CASE id \in {1, 2} -> {"csvText"}
      [] id = 3 -> {"productIds", "themeId"}
      [] id \in {5, 8} -> {"collections"}
      [] id \in {6, 7} -> {"themeId"}
      [] OTHER -> {}

\* the PipelineState fields buildRequestBody(stepId) reads
RequestFields(id) ==
    CASE id \in {1, 2} -> {"csvText"}
      [] id = 3 -> {"productIds"}
      [] id = 5 -> {"collections"}
      [] id = 6 -> {"themeId", "logoUrl", "faviconUrl", "bannerDesktopUrl",
                    "bannerMobileUrl", "collections"}
      [] id = 7 -> {"themeId"}
      [] id = 8 -> {"collections"}
      [] OTHER -> {}

\* C27: every field a step's request is built from is csvText or is owned by
\* a step with a smaller id; when a step is about to be invoked, in a full
\* run or a resume, each such owner has completed (its last execution
\* succeeded), csvText is loaded, and productIds and themeId hold what the
\* successful import and theme steps returned.
C27_RequestFieldsPopulated ==
    /\ \A i \in 1..Len(STEPS) :
         RequestFields(STEPS[i].id) \subseteq FieldsBefore(STEPS[i].id)
    /\ handler \in {"start", "retry"} =>
         LET need == RequestFields(STEPS[loopIdx].id) IN
         /\ \A j \in 1..Len(STEPS) :
              OwnedFields(STEPS[j].id) \cap need # {} =>
                  /\ j < loopIdx
                  /\ SeqIncludes(completedSteps, STEPS[j].id)
         /\ "csvText" \in need => pipe.csvText \in CsvFiles
         /\ "productIds" \in need => pipe.productIds # <<>>
         /\ "themeId" \in need => pipe.themeId \in {"t1", "t2"}

C27_Witness ==
    /\ handler = "retry"
    /\ STEPS[loopIdx].id = 6
    /\ resumeK = 4
    /\ resumePipe.themeId = ""
    /\ pipe.themeId = "t1"
    /\ pipe.logoUrl = "logo"

\* runStreamingStep applied to a body that arrives in one chunk
WholeStreamState(text) ==
    LET lines == Split(text, <<>>) IN
    [st |-> HandleLines([finalData |-> Null, stepProgress |-> NoProgress],
                        SubSeq(lines, 1, Len(lines) - 1)),
     buffer |-> lines[Len(lines)]]

WholeStreamResult(text) ==
    LET w == WholeStreamState(text) IN
    ReturnValue(HandleRest(w.st.finalData, w.buffer), w.st.stepProgress)

\* C29: however the body is split into chunks, the reader is in the state
\* that one chunk holding the text received so far would have produced (the
\* text after the last line feed is in the buffer, every line before it was
\* handled once), and when the body ends the value returned is the value
\* returned for the whole body in one chunk.
C29_ChunkingIndependent ==
    rsMode = "stream" =>
        /\ rsPc = "reading" =>
             LET w == WholeStreamState(rsReceived) IN
             /\ buffer = w.buffer
             /\ finalData = w.st.finalData
             /\ stepProgress = w.st.stepProgress
        /\ (rsPc \in {"returned", "recorded"} /\ rsEnding = "done") =>
             rsResult = WholeStreamResult(rsReceived)

C29_Witness ==
    /\ rsPc = "returned"
    /\ rsMode = "stream"
    /\ rsReceived = Concat(<<Line("p12"), Line("p22"), Stringify("cT")>>)
    /\ buffer = Stringify("cT")
    /\ rsResult = JSONParse(Stringify("cT")).value

\* C30: pipe changes only when handleStart loads csvText (no other field
\* changes) and when the response of the invoked step is merged (no field
\* outside those the step owns changes; steps 6, 7 and 8 own none).
C30_MergeWritesOwnedFieldsOnly ==
    [][pipe' # pipe =>
         /\ DOMAIN pipe' = DOMAIN pipe
         /\ \/ /\ activations' = activations + 1
               /\ lastHandler' = "start"
               /\ \A f \in DOMAIN pipe \ {"csvText"} : pipe'[f] = pipe[f]
            \/ /\ handler \in {"start", "retry"}
               /\ invoked' = Append(invoked, STEPS[loopIdx].id)
               /\ \A f \in DOMAIN pipe \ OwnedFields(STEPS[loopIdx].id) :
                    pipe'[f] = pipe[f]]_vars

C30_Witness ==
    /\ lastHandler = "retry"
    /\ invoked = <<4>>
    /\ outcomes = <<"ok">>
    /\ resumePipe.themeId = "t2"
    /\ pipe.themeId = "t1"
    /\ pipe.productIds = <<"p2", "p3">>
    /\ pipe.collections = <<"c1">>

\* ------------------------------------------------------------------------
\* Specification of the menus and policies endpoint (step8-menus POST)
\* ------------------------------------------------------------------------
PolicyLabels == <<"Refund Policy", "Privacy Policy", "Terms of Service",
                  "Shipping Policy">>

UrlRefund == "/policies/refund-policy"
UrlPrivacy == "/policies/privacy-policy"
UrlTerms == "/policies/terms-of-service"
UrlShipping == "/policies/shipping-policy"

\* const policyItems = [...]
policyItems ==
    << [title |-> "Refund Policy", type |-> "HTTP", url |-> UrlRefund],
       [title |-> "Privacy Policy", type |-> "HTTP", url |-> UrlPrivacy],
       [title |-> "Terms of Service", type |-> "HTTP", url |-> UrlTerms],
       [title |-> "Shipping Policy", type |-> "HTTP", url |-> UrlShipping] >>

PolicyUrls == {policyItems[i].url : i \in 1..Len(policyItems)}

\* the items a footer menu may hold before the step runs
ItemSearch == [id |-> 1, title |-> "Search", type |-> "SEARCH", url |-> "/search"]
ItemRefunds == [id |-> 2, title |-> "Refunds", type |-> "HTTP", url |-> UrlRefund]
ItemShipping ==
    [id |-> 3, title |-> "Shipping Policy", type |-> "SHOP_POLICY",
     url |-> UrlShipping]

FooterMenus ==
    { NoMenu, <<>>, <<ItemSearch>>, <<ItemRefunds>>, <<ItemSearch, ItemRefunds>>,
      <<ItemShipping, ItemSearch>>, <<ItemRefunds, ItemSearch, ItemShipping>> }

RECURSIVE SelectSeq2(_, _)
\* Array.filter for the policy items: those whose url is not in urls
SelectSeq2(items, urls) ==
    IF items = <<>> THEN <<>>
    ELSE IF Head(items).url \in urls
         THEN SelectSeq2(Tail(items), urls)
         ELSE <<Head(items)>> \o SelectSeq2(Tail(items), urls)

\* faulty variant of newPolicyItems: every policy item is added
newPolicyItems_All(existingItems) == policyItems

\* policyItems.filter((p) => !existingUrls.has(p.url))
newPolicyItems(existingItems) ==
    SelectSeq2(policyItems,
               {existingItems[i].url : i \in 1..Len(existingItems)})

MaxId(items) ==
    IF items = <<>> THEN 0
    ELSE CHOOSE n \in {items[i].id : i \in 1..Len(items)} :
            \A i \in 1..Len(items) : items[i].id <= n

\* menuUpdate(items: [...existingItems, ...newPolicyItems]) as the shop
\* stores it: the items that carry an id keep it, the others get a new one
menuUpdate(existingItems, added) ==
    existingItems \o
    [k \in 1..Len(added) |->
        [id |-> MaxId(existingItems) + k, title |-> added[k].title,
         type |-> added[k].type, url |-> added[k].url]]

\* the entries of completed and of errors
Done(item, n) == [item |-> item, n |-> n]
Failed(item, reason) == [item |-> item, reason |-> reason]

\* the policy loop: completed and errors after it
RECURSIVE PolicyLoop(_, _, _)
PolicyLoop(k, results, acc) ==
    IF k > Len(PolicyLabels) THEN acc
    ELSE PolicyLoop(k + 1, results,
           IF results[k] = "ok"
           THEN [acc EXCEPT !.completed = Append(@, Done(PolicyLabels[k], 0))]
           ELSE [acc EXCEPT !.errors =
                    Append(@, Failed(PolicyLabels[k], results[k]))])

\* how the four shopPolicyUpdate calls end
PolicyResults ==
    { [k \in 1..Len(PolicyLabels) |-> r] : r \in {"ok", "userErrors", "threw"} }
    \cup { [k \in 1..Len(PolicyLabels) |-> IF k = j THEN "userErrors" ELSE "ok"] :
             j \in 1..Len(PolicyLabels) }

MenusResponse(status, completed, errs) ==
    [status |-> status, success |-> Len(completed) > 0, completed |-> completed,
     errors |-> errs]

\* the POST of step8-menus
MenusPost ==
    /\ mnRuns < MaxMenuRuns
    /\ mnRuns' = mnRuns + 1
    /\ \E session, bodyOk, listOk, hasMain \in BOOLEAN,
          results \in PolicyResults,
          update \in {"ok", "userErrors", "threw", "threwApplied"} :
         IF ~session
         THEN /\ mnResponse' = [status |-> 401, success |-> FALSE,
                                completed |-> <<>>, errors |-> <<>>]
              /\ UNCHANGED <<footerMenu, mnApplied>>
         ELSE IF ~bodyOk
         THEN /\ mnResponse' = [status |-> 500, success |-> FALSE,
                                completed |-> <<>>, errors |-> <<>>]
              /\ UNCHANGED <<footerMenu, mnApplied>>
         ELSE
           LET afterPolicies ==
                   PolicyLoop(1, results, [completed |-> <<>>, errors |-> <<>>])
               afterList ==
                   IF listOk THEN afterPolicies
                   ELSE [afterPolicies EXCEPT !.errors =
                            Append(@, Failed("Listar menus", "threw"))]
               found == listOk /\ footerMenu # NoMenu
               added == newPolicyItems(footerMenu)
               applied == found /\ update \in {"ok", "threwApplied"}
               afterFooter ==
                   IF ~found
                   THEN [afterList EXCEPT !.errors =
                            Append(@, Failed("Footer menu", "not found"))]
                   ELSE IF update = "ok"
                   THEN [afterList EXCEPT !.completed =
                            Append(@, Done("Footer menu", Len(added)))]
                   ELSE [afterList EXCEPT !.errors =
                            Append(@, Failed("Footer menu", update))]
               afterMain ==
                   IF listOk /\ hasMain
                   THEN [afterFooter EXCEPT !.completed =
                            Append(@, Done("Main menu", 0))]
                   ELSE [afterFooter EXCEPT !.errors =
                            Append(@, Failed("Main menu", "not found"))]
           IN /\ footerMenu' = IF applied THEN menuUpdate(footerMenu, added)
                               ELSE footerMenu
              /\ mnApplied' = IF applied THEN mnApplied + 1 ELSE mnApplied
              /\ mnResponse' =
                     MenusResponse(200, afterMain.completed, afterMain.errors)
    /\ UNCHANGED <<footerInit, form, upsertVars, awaitVars, retryVars, pipeVars,
                   impVars, colVars, streamVars, uploadVars>>

MenusInit ==
    /\ RetryVarsInit
    /\ PipeVarsInit
    /\ ImpVarsIdle
    /\ entries = <<>>
    /\ ColVarsInit
    /\ StreamVarsIdle
    /\ upKind = "theme"
    /\ UploadVarsInit
    /\ remoteThemes = 0
    /\ themeProcessing = <<>>
    /\ UpsertVarsIdle
    /\ AwaitVarsInit
    /\ footerMenu \in FooterMenus
    /\ footerInit = footerMenu
    /\ mnRuns = 0
    /\ mnApplied = 0
    /\ mnResponse = Null
    /\ form = InitialForm

MenusNext == MenusPost

SpecMenus == MenusInit /\ [][MenusNext]_vars

UrlCount(items, url) == Cardinality({i \in 1..Len(items) : items[i].url = url})

\* C31: the footer menu is either as it was before the step ever ran or as
\* one applied execution leaves it, however many executions were applied;
\* the items that existed are kept in place, each policy URL that was
\* absent appears once, and none that was present is added again.
C31_FooterUpdateIdempotent ==
    /\ footerInit = NoMenu => footerMenu = NoMenu
    /\ footerInit # NoMenu =>
         LET once == menuUpdate(footerInit, newPolicyItems(footerInit)) IN
         /\ footerMenu = IF mnApplied = 0 THEN footerInit ELSE once
         /\ menuUpdate(once, newPolicyItems(once)) = once
         /\ SubSeq(footerMenu, 1, Len(footerInit)) = footerInit
         /\ \A u \in PolicyUrls :
              UrlCount(footerMenu, u) =
                  IF mnApplied = 0 THEN UrlCount(footerInit, u) ELSE 1

C31_Witness ==
    /\ mnApplied = 2
    /\ footerInit = <<ItemSearch, ItemRefunds>>
    /\ Len(footerMenu) = 5
    /\ mnResponse.status = 200
    /\ Done("Footer menu", 0) \in {mnResponse.completed[i] :
                                      i \in 1..Len(mnResponse.completed)}

\* an error response with at least one entry whose extension code is
\* THROTTLED or whose message contains THROTTLED
HasThrottlingEntry(resp) ==
    /\ ResOk(resp)
    /\ resp.hasErrors
    /\ \E k \in 1..Len(resp.errors) :
         \/ resp.errors[k].code = "THROTTLED"
         \/ Includes(resp.errors[k].message, THROTTLED)

\* C38: a response with a throttling entry, whatever else its errors list
\* holds, is followed by a wait and another request while attempts are left;
\* a response without such an entry is the last one of the call.
C38_ThrottledIffSomeEntry ==
    \A i \in 1..Len(requests) :
        /\ (HasThrottlingEntry(requests[i]) /\ i < maxRetries) =>
              /\ Len(delays) >= i
              /\ i < Len(requests) \/ gqlState = "running"
        /\ ~HasThrottlingEntry(requests[i]) =>
              /\ i = Len(requests)
              /\ gqlState \in {"returned", "threw"}
              /\ Len(delays) = i - 1

C38_Witness ==
    /\ Len(requests) = 2
    /\ requests[1].errors = <<ErrBusiness, ErrThrottledCode>>
    /\ requests[2].errors = <<ErrBusinessCode>>
    /\ requests[2].hasErrors
    /\ delays = <<[after |-> 0, ms |-> 1000]>>
    /\ gqlState = "threw"

\* C34: completedSteps is the sequence 1..j of step ids for some j; stepErrors
\* has at most one entry, and an entry is for step j+1.
C34_CompletedPrefixOneError ==
    /\ \A i \in 1..Len(completedSteps) : completedSteps[i] = STEPS[i].id
    /\ Len(completedSteps) <= Len(STEPS)
    /\ Cardinality(DOMAIN stepErrors) <= 1
    /\ \A k \in DOMAIN stepErrors :
         /\ Len(completedSteps) < Len(STEPS)
         /\ k = STEPS[Len(completedSteps) + 1].id

C34_Witness ==
    /\ lastHandler = "retry"
    /\ resumeK = 3
    /\ completedSteps = <<1, 2, 3, 4, 5>>
    /\ DOMAIN stepErrors = {6}
    /\ ~running

AllCompleted == completedSteps = [i \in 1..Len(STEPS) |-> STEPS[i].id]

\* the state a handler that ended leaves: everything completed and done, or
\* one step error and not done
EndedDoneOrOneError ==
    (~running /\ activations > 0) =>
        \/ done /\ AllCompleted /\ DOMAIN stepErrors = {}
        \/ ~done /\ Cardinality(DOMAIN stepErrors) = 1

\* C35: a run or resume that set running ends with running = false, then
\* with done and all eight steps completed and no step error, or with one
\* step error and done = false; done is never true while a step is
\* uncompleted.
C35_RunEndsDoneOrOneError ==
    /\ [](running => <>(~running))
    /\ []EndedDoneOrOneError
    /\ [](done => AllCompleted)

\* C37: when the create call of findOrCreateCollection throws (a non-2xx
\* response, a business error in the errors list, or throttling through
\* every attempt), nothing is created and the lookup by handle is still
\* performed: a collection of that handle that exists remotely is returned
\* unless the lookup fails, and null is returned only if the lookup finds
\* nothing or fails.
C37_CreateThrowStillLooksUp ==
    ~Delivered(lastFoc.createFault) =>
        /\ lastFoc.createFault \in
               { <<Http500>>, <<Business200>>,
                 <<Throttled200, Throttled200, Throttled200>> }
        /\ lastFoc.looked /\ ~lastFoc.created
        /\ (CollectionsWithHandle(lastFoc.handle) # {} /\ ~lastFoc.lookupThrew) =>
             \E i \in CollectionsWithHandle(lastFoc.handle) :
                 lastFoc.result = remoteCollections[i].id
        /\ lastFoc.result = 0 =>
             CollectionsWithHandle(lastFoc.handle) = {} \/ lastFoc.lookupThrew

C37_Witness ==
    /\ lastFoc.createFault = <<Business200>>
    /\ lastFoc.looked
    /\ ~lastFoc.lookupThrew
    /\ lastFoc.result # 0
    /\ colPc = "done"

\* the fields of the import's answer that the orchestrator reads
ConsumedFields == {"type", "success", "productIds"}

\* C36: when the location lookup of the import fails (the query throws or
\* lists no location), no productCreate request is issued and the answer is
\* one complete record with success = false, imported = 0, failed = total
\* and one "_global" error; runStreamingStep takes it from the trailing
\* buffer, and runStep makes of it a failed step 2 with productIds empty.
C36_LocationFailureIsFailedStep ==
    (callLog # <<>> /\ callLog[1].outcome = "threw") =>
        /\ Len(callLog) = 1
        /\ impPc = "json"
        /\ impStatus = 200
        /\ Len(stream) = 1
        /\ LET rec == stream[1] IN
           /\ rec.type = "complete"
           /\ ~rec.success
           /\ rec.imported = 0
           /\ rec.failed = Len(entries)
           /\ rec.total = Len(entries)
           /\ rec.productIds = <<>>
           /\ Len(rec.errors) = 1
           /\ rec.errors[1].handle = "_global"
           /\ \A f \in ConsumedFields : JSONValues["cF"][f] = rec[f]
        /\ LET data == WholeStreamResult(Stringify("cF"))
               before == [EmptyPipe EXCEPT !.productIds = <<"p1">>]
           IN
           /\ data = JSONValues["cF"]
           /\ applyPipelineData(before, 2, data).productIds = <<>>
           /\ ~(Has(data, "success") /\ data.success)

C36_Witness ==
    /\ callLog = <<[op |-> "locations", handle |-> "", outcome |-> "threw"]>>
    /\ Len(entries) = 2
    /\ impPc = "json"
    /\ stream[1].failed = 2

\* C32: whenever the theme step answers success with a themeId, the remote
\* theme of that id has finished processing, also when the step is executed
\* again after an execution that created the theme and timed out.
C32_SuccessMeansProcessed ==
    (upKind = "theme" /\ upPc = "done" /\ upResult # Null
       /\ upResult.success /\ upResult.themeId # "") =>
        /\ themeIdx \in 1..Len(themeProcessing)
        /\ ~themeProcessing[themeIdx]

\* ------------------------------------------------------------------------
\* Specification of a full run against the step endpoints, every remote
\* call of an endpoint succeeding
\* ------------------------------------------------------------------------
ImageKeys == {"logo", "favicon", "bannerDesktop", "bannerMobile"}

\* what the user may have entered in the form
Forms ==
    { [names |-> n, images |-> im] :
        n \in { << <<>> >>, <<NameCafe>>, <<NameCafe, <<>> >> },
        im \in SUBSET ImageKeys }

\* formReady (the colours have defaults)
formReady(file, f) ==
    /\ file # NoFile
    /\ \E i \in 1..Len(f.names) : ~IsBlank(f.names[i])

\* collections.filter((c) => c.name.trim()).map((c) => c.name.trim())
NamedCollection(n) == ~IsBlank(n)
colNames(f) ==
    LET named == SelectSeq(f.names, NamedCollection)
    IN  [i \in 1..Len(named) |-> TrimEnd(TrimStart(named[i]))]

JsonBody(fields) == [contentType |-> "application/json", fields |-> fields]
FormDataBody(fields) == [contentType |-> "multipart/form-data", fields |-> fields]

\* buildRequestBody(stepId): the body and its content type
buildRequestBody(stepId, p, f) ==
    CASE stepId \in {1, 2} -> JsonBody([csvText |-> p.csvText])
      [] stepId = 3 ->
           JsonBody([collections |-> colNames(f), productIds |-> p.productIds])
      [] stepId = 4 -> JsonBody(EmptyMap)
      [] stepId = 5 ->
           FormDataBody([k \in f.images \cup {"collectionMeta"} |-> "part"])
      [] stepId = 6 ->
           JsonBody([themeId |-> p.themeId, primaryColor |-> "#6d388b",
                     secondaryColor |-> "#a7d92f", logoUrl |-> p.logoUrl,
                     faviconUrl |-> p.faviconUrl,
                     bannerDesktopUrl |-> p.bannerDesktopUrl,
                     bannerMobileUrl |-> p.bannerMobileUrl,
                     collections |-> p.collections])
      [] stepId = 7 -> JsonBody([themeId |-> p.themeId])
      [] stepId = 8 -> JsonBody([collections |-> p.collections])
      [] OTHER -> JsonBody(EmptyMap)

\* what the endpoint of a step reads from its request: how it parses the
\* body, the members it cannot go on without, and those of them it tests
\* for a non-empty string
RequiredInput(stepId) ==
    CASE stepId \in {1, 2} ->
           [contentType |-> "application/json", present |-> {"csvText"},
            nonEmpty |-> {"csvText"}]
      [] stepId = 3 ->
           [contentType |-> "application/json", present |-> {"collections"},
            nonEmpty |-> {}]
      [] stepId = 4 ->
           [contentType |-> "multipart/form-data", present |-> {"themeZip"},
            nonEmpty |-> {}]
      [] stepId = 5 ->
           [contentType |-> "multipart/form-data", present |-> {},
            nonEmpty |-> {}]
      [] stepId \in {6, 7} ->
           [contentType |-> "application/json", present |-> {"themeId"},
            nonEmpty |-> {"themeId"}]
      [] OTHER ->
           [contentType |-> "application/json", present |-> {}, nonEmpty |-> {}]

\* the request passes the endpoint's parsing and its checks of the input
Accepts(stepId, req) ==
    LET need == RequiredInput(stepId) IN
    /\ req.contentType = need.contentType
    /\ need.present \subseteq DOMAIN req.fields
    /\ \A k \in need.nonEmpty : req.fields[k] # ""

\* the answer of the endpoint when all its remote calls succeed
SuccessData(stepId) ==
    CASE stepId = 1 -> [success |-> TRUE, totalProducts |-> 2, message |-> "msg"]
      [] stepId = 2 -> [success |-> TRUE, productIds |-> <<"p1">>, message |-> "msg"]
      [] stepId = 3 -> [success |-> TRUE, collections |-> <<"c1">>,
                        bestSellersId |-> "bs", message |-> "msg"]
      [] stepId = 4 -> [success |-> TRUE, themeId |-> "t1", message |-> "msg"]
      [] stepId = 5 -> [success |-> TRUE, logoUrl |-> "logo", message |-> "msg"]
      [] OTHER -> [success |-> TRUE, message |-> "msg"]

\* a request the endpoint cannot parse ends in its catch (500), a missing
\* input in its 400 answer: success is false in both
EndpointAnswer(stepId, req) ==
    IF Accepts(stepId, req) THEN SuccessData(stepId)
    ELSE [success |-> FALSE, message |-> "msg", errors |-> <<>>]

\* runStep(stepDef) against that endpoint
HappyOutcome(stepId, p, f) ==
    LET data == EndpointAnswer(stepId, buildRequestBody(stepId, p, f)) IN
    [threw |-> ~(Has(data, "success") /\ data.success),
     pipe |-> applyPipelineData(p, stepId, data),
     message |-> SummaryMessage(stepId, data)]

\* the user fills the form (its inputs are disabled while running)
setForm ==
    /\ ~running
    /\ handler = "none"
    /\ \E f \in Forms : form' = f
    /\ UNCHANGED <<menuVars, upsertVars, awaitVars, retryVars, pipeVars, impVars,
                   colVars, streamVars, uploadVars>>

\* the submit button is disabled unless formReady
HappyStart ==
    /\ formReady(csvFile, form)
    /\ handleStart

\* one iteration of the for loop of handleStart against the endpoints
HappyLoopStep ==
    /\ handler = "start"
    /\ LET stepDef == STEPS[loopIdx]
           out == HappyOutcome(stepDef.id, pipe, form)
       IN
       /\ currentStep' = stepDef.id
       /\ invoked' = Append(invoked, stepDef.id)
       /\ pipe' = out.pipe
       /\ IF out.threw
          THEN /\ stepErrors' = PutKey(stepErrors, stepDef.id, out.message)
               /\ running' = FALSE
               /\ handler' = CatchReturn(handler, loopIdx).handler
               /\ loopIdx' = CatchReturn(handler, loopIdx).loopIdx
               /\ outcomes' = Append(outcomes, "failed")
               /\ lastFailed' = stepDef.id
               /\ UNCHANGED <<completedSteps, done>>
          ELSE /\ completedSteps' = Append(completedSteps, stepDef.id)
               /\ outcomes' = Append(outcomes, "ok")
               /\ IF loopIdx = Len(STEPS)
                  THEN /\ done' = TRUE
                       /\ running' = FALSE
                       /\ handler' = "none"
                       /\ UNCHANGED loopIdx
                  ELSE /\ loopIdx' = loopIdx + 1
                       /\ UNCHANGED <<done, running, handler>>
               /\ UNCHANGED <<stepErrors, lastFailed>>
    /\ UNCHANGED <<csvFile, lastHandler, resumeK, resumePipe, activations,
                   notPipeVars>>

HappyNext ==
    \/ setCsvFile
    \/ setForm
    \/ HappyStart
    \/ HappyLoopStep

SpecHappyRun == PipelineInit /\ [][HappyNext]_vars

\* every request to an endpoint is answered: the loop goes on
FairSpecHappyRun == SpecHappyRun /\ WF_vars(HappyLoopStep)

\* C33: when every remote call succeeds, a full run completes all eight
\* steps and sets done: the request the orchestrator builds for each step
\* carries every input the step's endpoint requires (the theme archive for
\* the theme upload).
C33_HappyRunCompletes ==
    /\ [](handler = "start" =>
            Accepts(STEPS[loopIdx].id,
                    buildRequestBody(STEPS[loopIdx].id, pipe, form)))
    /\ [](handler = "start" => <>(done /\ AllCompleted))

====
